---- MODULE Spec2Model ----
(***************************************************************************)
(* Grid harmonization and temporal-spatial join engine.                    *)
(*                                                                         *)
(* Spec   : the streaming, year-by-year combine run of                     *)
(*          ca_data_processing/combine_dataset.py (polars, spill files in  *)
(*          TEMP_DIR).                                                     *)
(* SpecSD : the in-memory combine run of combine_dataset.py (pandas).      *)
(* SpecBoth : a run of either script.                                      *)
(*                                                                         *)
(* Coordinates are integers in units of 1e-6 degree; a value rounded to 5  *)
(* decimal digits is a multiple of 10.  Every value stored in a source     *)
(* file is the integer DataValue(...) of the place it was stored at, so a  *)
(* value attached to the wrong key is visible.                             *)
(***************************************************************************)
EXTENDS Integers, Sequences, FiniteSets, TLC

\* ------------------------------------------------------------------ bounds
NumYears == 2
NumMonths == 2
NumCells == 2
NumTiles == 3
NumWorkers == 2
MaxSamples == 5
MaxDrift == 30
MaxAxis == 3
MaxSpan == 12

\* --------------------------------------------------------------- constants
START_YEAR == 2000
Null == -1

Years == START_YEAR..(START_YEAR + NumYears - 1)
Months == 1..NumMonths
Cells == 1..NumCells
Days == {1, 17}

vars_list == <<"ppt", "tdmean", "tmax", "vpdmax">>
required_cols == <<"lat", "lon", "year", "month", "ppt", "tdmean", "tmax", "vpdmax",
                   "burned_area", "ndvi", "landcover", "elevation", "slope", "aspect">>

SeqToSet(s) == {s[i] : i \in DOMAIN s}

\* ------------------------------------------------------- source file data
\* Drift of the raw coordinates of a source, from its own reprojection.
SrcDrift(src) ==
    CASE src = "prism" -> 0
      [] src = "mtbs" -> 2
      [] src = "ndvi" -> -3
      [] src = "nlcd" -> 4
      [] OTHER -> -4

\* Cells lie on a grid of two columns: cells 1 and 2 share a latitude,
\* cells 1 and 3 share a longitude.
RawLat(src, c) == 32700000 + 8330 * ((c - 1) \div 2) + SrcDrift(src)
RawLon(src, c) == (-117100000) + 8330 * ((c - 1) % 2) + SrcDrift(src)

FieldId(f) ==
    CASE f = "ppt" -> 1
      [] f = "tdmean" -> 2
      [] f = "tmax" -> 3
      [] f = "vpdmax" -> 4
      [] f = "burned_area" -> 5
      [] f = "ndvi" -> 6
      [] f = "landcover" -> 7
      [] f = "elevation" -> 8
      [] f = "slope" -> 9
      [] OTHER -> 10

\* The value a source file of field f holds at cell c for (y, m, d);
\* m = 0 and d = 0 where the file has no month or day.
DataValue(f, c, y, m, d) ==
    ((((FieldId(f) * 10 + c) * 10 + (y - START_YEAR)) * 10 + m) * 40) + d

\* ------------------------------------------------------------ quantization
pl_round5_offgrid(x) ==
    IF x >= 0 THEN ((x + 5) \div 10) * 10 + 5
              ELSE -((((-x) + 5) \div 10) * 10) + 5

\* polars Expr.round(5): half away from zero.
pl_round5(x) ==
    IF x >= 0 THEN ((x + 5) \div 10) * 10
              ELSE -((((-x) + 5) \div 10) * 10)

\* pandas Series.round(5): half to even.
pd_round5(x) ==
    LET q == x \div 10
        r == x % 10
    IN  IF r < 5 THEN q * 10
        ELSE IF r > 5 THEN (q + 1) * 10
        ELSE IF q % 2 = 0 THEN q * 10 ELSE (q + 1) * 10

\* ------------------------------------------------------------------ tables
\* A table is [cols: sequence of column names, rows: sequence of rows];
\* a row is a function from the table's column names to integers.
EmptyTable == [cols |-> <<>>, rows |-> <<>>]

ColSet(t) == SeqToSet(t.cols)

select(t, cols) ==
    [cols |-> cols,
     rows |-> [i \in DOMAIN t.rows |-> [c \in SeqToSet(cols) |-> t.rows[i][c]]]]

RECURSIVE Flatten(_)
Flatten(ss) == IF ss = <<>> THEN <<>> ELSE Head(ss) \o Flatten(Tail(ss))

JoinCols(l, r, on) == l.cols \o SelectSeq(r.cols, LAMBDA c : c \notin on)

\* The rows a left row yields: one per matching right row, in the right
\* table's order, or one null-filled row when nothing matches.
JoinedRows(lrow, l, r, on) ==
    LET ms == SelectSeq(r.rows, LAMBDA rr : \A k \in on : rr[k] = lrow[k])
        cs == SeqToSet(JoinCols(l, r, on))
    IN  IF ms = <<>>
        THEN << [c \in cs |-> IF c \in ColSet(l) THEN lrow[c] ELSE Null] >>
        ELSE [i \in DOMAIN ms |->
                [c \in cs |-> IF c \in ColSet(l) THEN lrow[c] ELSE ms[i][c]]]

\* DataFrame.join(..., how='left') / pd.merge(..., how='left')
join_left(l, r, on) ==
    [cols |-> JoinCols(l, r, on),
     rows |-> Flatten([i \in DOMAIN l.rows |-> JoinedRows(l.rows[i], l, r, on)])]

\* pl.concat(how='vertical') accepts a non-empty list of equal schemas.
concat_ok(ts) == Len(ts) > 0 /\ \A i \in DOMAIN ts : ts[i].cols = ts[1].cols

concat(ts) ==
    [cols |-> ts[1].cols,
     rows |-> Flatten([i \in DOMAIN ts |-> ts[i].rows])]


RECURSIVE SortedSeq(_)
\* sorted(...) of a set of integers
SortedSeq(S) ==
    IF S = {} THEN <<>>
    ELSE LET lo == CHOOSE x \in S : \A y \in S : x <= y
         IN  <<lo>> \o SortedSeq(S \ {lo})

\* =========================================================================
\* ca_data_processing/combine_dataset.py
\* =========================================================================
VARIABLES
    pc,                 \* position of main
    error,              \* the exception main ends with, "none" if none
    dem_exists,         \* DEM_DIR / usgs_dem_800m.nc exists
    dem_cells,          \* the cells the elevation file covers
    prism_by_year,      \* year -> month -> set of variables with a file
    mtbs_by_year,       \* year -> set of months with a file
    ndvi_by_year,       \* year -> month -> day of the file kept for the month
    nlcd_by_year,       \* set of years with a land cover file
    all_years,          \* sorted years of prism_by_year
    yi,                 \* index in all_years of the year being processed
    temp_exists,        \* TEMP_DIR exists
    temp,               \* the files of TEMP_DIR: name -> table
    prism_file, mtbs_file, ndvi_file, nlcd_file, dem_file,
    merged_year_files,  \* names of the merged YearTables, in order
    combined,           \* the table held in memory by main
    output_written,     \* OUTPUT_FILE has been written
    output,             \* the table written to OUTPUT_FILE
    no_base,            \* years whose base source gave no table
    concat_read,        \* spill files the final concatenation has read
    loaded,             \* the sources a table has been loaded from so far
    base_rows,          \* number of rows of the base table last produced
    prism_df, mtbs_df, ndvi_df, nlcd_df, dem_df,   \* combine_dataset.py
    sd_files            \* combine_dataset.py: the discovered files

\* ca_data_processing/process_dem_data.py and sd_data_processing/process_dem_data.py
VARIABLES
    dem_pc,             \* position of main
    dem_error,          \* the exception main ends with, "none" if none
    prism_ref_exists,   \* PRISM_REF_PATH exists
    ca_state_exists,    \* CA_STATE_PATH exists
    dem_files,          \* the tiles of INPUT_DIR found by the glob
    submitted,          \* number of tiles handed to the executor
    tile_data,          \* tile -> the clipped raster computed from, once there is one
    tile_status,        \* tile -> "new", "queued", "running", "skipped", "failed", "merged"
    w_pc, w_tile,       \* worker -> position, tile being processed
    w_local,            \* worker -> local_count, local_elev, ... of its tile
    w_reg,              \* worker -> the accumulator value read by +=
    w_k,                \* worker -> index of the accumulator being updated
    stats_lock,         \* holder of stats_lock, 0 when free
    accumulators,       \* name -> cell -> value
    merged_into,        \* name -> tiles already added to the accumulator
    fin,                \* fin_elev, fin_slope, fin_sx, fin_sy, fin_aspect
    divided,            \* cells whose sums were divided by their count
    dem_written,        \* usgs_dem_800m.nc has been written
    dem_stdout          \* the lines printed so far that tell of the run's tiles

dem_vars == <<dem_pc, dem_error, prism_ref_exists, ca_state_exists, dem_files,
              submitted, tile_data, tile_status, w_pc, w_tile, w_local, w_reg,
              w_k, stats_lock, accumulators, merged_into, fin, divided,
              dem_written, dem_stdout>>

\* download_nlcd_annual.py and ca_data_processing/download_nlcd_annual.py:
\* the upscaling of the fine samples of one coarse cell
VARIABLES
    nlcd_pc,            \* position: which upscale_to_prism runs or has run
    nlcd_flat,          \* the fine samples of the cell, in raster order
    nlcd_coarse         \* the value of the coarse cell

nlcd_vars == <<nlcd_pc, nlcd_flat, nlcd_coarse>>

\* the quantization of one coordinate by the combine scripts
VARIABLES
    q_pc,               \* "raw", "once", "twice"
    q_lib,              \* "polars" or "pandas"
    q_x,                \* the coordinate of the source file
    q_once, q_twice     \* after one and after two roundings

quant_vars == <<q_pc, q_lib, q_x, q_once, q_twice>>

\* the bin edges and the orientation of the aggregation stages
\* (ca_data_processing/process_dem_data.py, sd_data_processing/process_dem_data.py,
\* download_nlcd_annual.py)
VARIABLES
    g_pc,               \* "edges", "bin", "save", "done"
    g_stage,            \* "ca_dem", "sd_dem" or "sd_nlcd"
    g_latc, g_lonc,     \* the reference axes: cell centers, y and x
    g_lat_edges,        \* the bin edges built from g_latc
    g_lon_edges,        \* the bin edges built from g_lonc
    g_coarse,           \* row -> column -> the fine samples aggregated there
    g_saved,            \* the saved grid: the array under the reference axes
    g_error             \* the exception the stage ends with, "none" if none

grid_vars == <<g_pc, g_stage, g_latc, g_lonc, g_lat_edges, g_lon_edges,
               g_coarse, g_saved, g_error>>

\* the hand-over of a vegetation index file from process_ndvi_data.py to
\* combine_dataset.py (San Diego) and from ca_data_processing/process_ndvi_data.py
\* to ca_data_processing/combine_dataset.py (California)
VARIABLES
    h_pc,               \* "input", "written", "failed", "matched", "unmatched"
    h_region,           \* "sd" or "ca"
    h_input,            \* the input file: year and day of year of its name
    h_output,           \* the name of the output file written, NoName if none
    h_assigned          \* the year and month the combine stage assigns

ho_vars == <<h_pc, h_region, h_input, h_output, h_assigned>>

\* extract_BSmosaics.py
VARIABLES
    bs_pc,                  \* position of main: "start", "loop", "report", "done"
    bs_env,                 \* what main finds: the shapefile, the county, MOS_PATH
    bs_arg_year,            \* --year, 0 when not given
    bs_years,               \* years: the year directories to process, sorted
    bs_i,                   \* index of the next directory of the loop
    bs_found,               \* directory -> what it turned out to hold
    all_dfs,                \* the directories whose DataFrame was collected
    processed_count,
    skipped_no_file,
    skipped_no_overlap,
    skipped_no_data,
    skipped_other_error,
    bs_written              \* sd_burn_severity.parquet has been written

bs_vars == <<bs_pc, bs_env, bs_arg_year, bs_years, bs_i, bs_found, all_dfs,
             processed_count, skipped_no_file, skipped_no_overlap,
             skipped_no_data, skipped_other_error, bs_written>>

\* download_prism_data.py and sd_data_processing/download_prism_data.py:
\* the split of the years over the download workers
VARIABLES
    sp_pc,                  \* position of main: "start", "submit", "wait", "done"
    sp_script,              \* which of the two scripts runs
    sp_shapefile,           \* SD_SHAPEFILE_PATH exists
    sp_end_year,            \* END_YEAR
    sp_i,                   \* i of the submit loop
    current_start_year,
    futures                 \* the submitted tasks: start year, end year, worker

split_vars == <<sp_pc, sp_script, sp_shapefile, sp_end_year, sp_i,
                current_start_year, futures>>

other_vars == <<grid_vars, ho_vars, bs_vars, split_vars>>

stage_vars == <<dem_vars, nlcd_vars, quant_vars, other_vars>>

vars == <<pc, error, dem_exists, dem_cells, prism_by_year, mtbs_by_year,
          ndvi_by_year, nlcd_by_year, all_years, yi, temp_exists, temp,
          prism_file, mtbs_file, ndvi_file, nlcd_file, dem_file,
          merged_year_files, combined, output_written, output, no_base,
          concat_read, loaded, base_rows, prism_df, mtbs_df, ndvi_df, nlcd_df, dem_df, sd_files,
          stage_vars>>

sd_vars == <<prism_df, mtbs_df, ndvi_df, nlcd_df, dem_df, sd_files>>
NoSdFiles == [prism |-> {}, mtbs |-> {}, ndvi |-> {}, nlcd |-> {}]
ca_inputs == <<dem_exists, dem_cells>>
year_files == <<prism_file, mtbs_file, ndvi_file, nlcd_file>>
listings == <<prism_by_year, mtbs_by_year, ndvi_by_year, nlcd_by_year>>

\* A spill file name is <<kind, year, month>>, 0 where the name has none.
NoFile == <<"none", 0, 0>>
FileName(kind, y, m) == <<kind, y, m>>

write_parquet(dir, name, t) ==
    [f \in (DOMAIN dir) \cup {name} |-> IF f = name THEN t ELSE dir[f]]

delete_files(dir, file_list) ==
    [f \in (DOMAIN dir) \ file_list |-> dir[f]]

\* ---- the directory listings a year can have
\* Every listed PRISM file opens and holds Band1; a listed MTBS, NDVI or
\* NLCD file holds a data variable, and may fail to open.
VarsSet == SeqToSet(vars_list)

\* months 1..k hold all four variables, the later months lack vpdmax
\* (k = 0: the year has files but no complete month)
PrismListings ==
    { [m \in Months |-> IF m <= k THEN VarsSet ELSE VarsSet \ {"vpdmax"}] :
        k \in {0, 1, NumMonths} }

MtbsListings == { {}, {1}, Months }

\* files <<month, day>>: none, or one file per composite day of month 1
NdviListings == { {}, {<<1, d>> : d \in Days} }

\* ndvi_by_year[year][month] = file_path keeps the file globbed last
NdviDicts(files) ==
    { dct \in [{f[1] : f \in files} -> Days] :
        \A m \in DOMAIN dct : <<m, dct[m]>> \in files }

\* the elevation grid ends one cell short of the climate grid, so that both
\* a matched and an unmatched cell occur in every run
DemCoverages == { Cells \ {NumCells} }

\* ---- per-file tables
process_single_prism_file(var_name, year, month) ==
    [cols |-> <<"lat", "lon", var_name, "year", "month">>,
     rows |-> [c \in 1..NumCells |->
        [k \in {"lat", "lon", var_name, "year", "month"} |->
            CASE k = "lat" -> pl_round5(RawLat("prism", c))
              [] k = "lon" -> pl_round5(RawLon("prism", c))
              [] k = "year" -> year
              [] k = "month" -> month
              [] OTHER -> DataValue(var_name, c, year, month, 0)]]]

RECURSIVE PrismMonthJoin(_, _, _)
\* combined after the first n variables of vars_list
PrismMonthJoin(year, month, n) ==
    IF n = 1 THEN process_single_prism_file(vars_list[1], year, month)
    ELSE join_left(PrismMonthJoin(year, month, n - 1),
                   select(process_single_prism_file(vars_list[n], year, month),
                          <<"lat", "lon", vars_list[n]>>),
                   {"lat", "lon"})

\* a month is kept as soon as it lacks at most one variable
PrismMonths_lenient(files_by_month) ==
    { m \in DOMAIN files_by_month :
        Cardinality(files_by_month[m]) >= Len(vars_list) - 1 }

\* the months of files_by_month that are not skipped
PrismMonths(files_by_month) ==
    { m \in DOMAIN files_by_month :
        Cardinality(files_by_month[m]) = Len(vars_list) }

\* no month is skipped
process_prism_year_every_month(year, files_by_month) ==
    LET ms == SortedSeq(DOMAIN files_by_month)
    IN  concat([i \in DOMAIN ms |-> PrismMonthJoin(year, ms[i], Len(vars_list))])

\* the yearly table of process_prism_year, for a year with a kept month
process_prism_year(year, files_by_month) ==
    LET ms == SortedSeq(PrismMonths(files_by_month))
    IN  concat([i \in DOMAIN ms |-> PrismMonthJoin(year, ms[i], Len(vars_list))])

MonthlyTable(src, field, year, month, day) ==
    [cols |-> <<"lat", "lon", field, "year", "month">>,
     rows |-> [c \in 1..NumCells |->
        [k \in {"lat", "lon", field, "year", "month"} |->
            CASE k = "lat" -> pl_round5(RawLat(src, c))
              [] k = "lon" -> pl_round5(RawLon(src, c))
              [] k = "year" -> year
              [] k = "month" -> month
              [] OTHER -> DataValue(field, c, year, month, day)]]]

process_mtbs_year(year, files_by_month) ==
    LET ms == SortedSeq(files_by_month)
    IN  concat([i \in DOMAIN ms |->
                    MonthlyTable("mtbs", "burned_area", year, ms[i], 0)])

process_ndvi_year(year, files_by_month) ==
    LET ms == SortedSeq(DOMAIN files_by_month)
    IN  concat([i \in DOMAIN ms |->
                    MonthlyTable("ndvi", "ndvi", year, ms[i], files_by_month[ms[i]])])

process_nlcd_year(year) ==
    [cols |-> <<"lat", "lon", "landcover", "year">>,
     rows |-> [c \in 1..NumCells |->
        [k \in {"lat", "lon", "landcover", "year"} |->
            CASE k = "lat" -> pl_round5(RawLat("nlcd", c))
              [] k = "lon" -> pl_round5(RawLon("nlcd", c))
              [] k = "year" -> year
              [] OTHER -> DataValue("landcover", c, year, 0, 0)]]]

load_dem(cells) ==
    LET cs == SortedSeq(cells)
    IN  [cols |-> <<"lat", "lon", "elevation", "slope", "aspect">>,
         rows |-> [i \in DOMAIN cs |->
            [k \in {"lat", "lon", "elevation", "slope", "aspect"} |->
                CASE k = "lat" -> pl_round5(RawLat("dem", cs[i]))
                  [] k = "lon" -> pl_round5(RawLon("dem", cs[i]))
                  [] OTHER -> DataValue(k, cs[i], START_YEAR, 0, 0)]]]

JoinIf(t, dir, file, on) ==
    IF file # NoFile THEN join_left(t, dir[file], on) ELSE t

\* the burn table joined on the annual key, without the month
merge_year_data_annual_key(dir, prism, mtbs, ndvi, nlcd, dem) ==
    JoinIf(JoinIf(JoinIf(JoinIf(dir[prism],
        dir, mtbs, {"lat", "lon", "year"}),
        dir, ndvi, {"lat", "lon", "year", "month"}),
        dir, nlcd, {"lat", "lon", "year"}),
        dir, dem, {"lat", "lon"})

merge_year_data(dir, prism, mtbs, ndvi, nlcd, dem) ==
    JoinIf(JoinIf(JoinIf(JoinIf(dir[prism],
        dir, mtbs, {"lat", "lon", "year", "month"}),
        dir, ndvi, {"lat", "lon", "year", "month"}),
        dir, nlcd, {"lat", "lon", "year"}),
        dir, dem, {"lat", "lon"})

\* only the key and climate columns are looked for
verify_final_output_base_only(df) ==
    SelectSeq(SubSeq(required_cols, 1, 8), LAMBDA c : c \notin ColSet(df))

\* the required columns df lacks
verify_final_output(df) ==
    SelectSeq(required_cols, LAMBDA c : c \notin ColSet(df))


\* ---- main
\* The listings are fixed by the globs at the start of main.  The entry of
\* a year is read only in that year's iteration and no step writes to the
\* source directories, so the model draws the entry of a year when the loop
\* reaches the year.
\* the years in the order the key set happens to iterate, here descending
UnsortedYears(ys) ==
    LET asc == SortedSeq(ys)
    IN  [i \in DOMAIN asc |-> asc[Len(asc) + 1 - i]]

\* all_years = sorted(set(prism_by_year.keys()))
SortedYears(ys) == SortedSeq(ys)

LoopPc(i) == IF i <= Len(all_years) THEN "prism_year" ELSE "delete_dem"

year == all_years[yi]

DictPut(dct, k, v) == [x \in (DOMAIN dct) \cup {k} |-> IF x = k THEN v ELSE dct[x]]

\* ------------------------------------------------- the other stages at rest
Tiles == 1..NumTiles
Workers == 1..NumWorkers

\* accumulators, in the order in which the merge step updates them
AccNames == <<"count", "elev", "slope", "sx", "sy">>

\* np.zeros(shape)
ZeroGrid == [c \in Cells |-> 0]
ZeroAccumulators == [n \in SeqToSet(AccNames) |-> ZeroGrid]

NoFin == <<>>

DemIdle ==
    /\ dem_pc = "off"
    /\ dem_error = "none"
    /\ prism_ref_exists = FALSE
    /\ ca_state_exists = FALSE
    /\ dem_files = {}
    /\ submitted = 0
    /\ tile_data = [t \in Tiles |-> "unopened"]
    /\ tile_status = [t \in Tiles |-> "new"]
    /\ w_pc = [w \in Workers |-> "idle"]
    /\ w_tile = [w \in Workers |-> 0]
    /\ w_local = [w \in Workers |-> ZeroAccumulators]
    /\ w_reg = [w \in Workers |-> ZeroGrid]
    /\ w_k = [w \in Workers |-> 0]
    /\ stats_lock = 0
    /\ accumulators = ZeroAccumulators
    /\ merged_into = [n \in SeqToSet(AccNames) |-> {}]
    /\ fin = NoFin
    /\ divided = {}
    /\ dem_written = FALSE
    /\ dem_stdout = {}

NlcdIdle ==
    /\ nlcd_pc = "off"
    /\ nlcd_flat = <<>>
    /\ nlcd_coarse = 0

QuantIdle ==
    /\ q_pc = "off"
    /\ q_lib = "none"
    /\ q_x = 0
    /\ q_once = 0
    /\ q_twice = 0

NoGrid == <<>>

GridIdle ==
    /\ g_pc = "off"
    /\ g_stage = "none"
    /\ g_latc = <<>>
    /\ g_lonc = <<>>
    /\ g_lat_edges = <<>>
    /\ g_lon_edges = <<>>
    /\ g_coarse = NoGrid
    /\ g_saved = NoGrid
    /\ g_error = "none"

NoName == [prefix |-> "", date |-> <<>>, ext |-> ""]
NoDate == [year |-> 0, month |-> 0]

HandoverIdle ==
    /\ h_pc = "off"
    /\ h_region = "none"
    /\ h_input = [year |-> 0, doy |-> 0]
    /\ h_output = NoName
    /\ h_assigned = NoDate

BsIdle ==
    /\ bs_pc = "off"
    /\ bs_env = [counties |-> FALSE, sd_county |-> FALSE, mos_path |-> FALSE]
    /\ bs_arg_year = 0
    /\ bs_years = <<>>
    /\ bs_i = 0
    /\ bs_found = <<>>
    /\ all_dfs = <<>>
    /\ processed_count = 0
    /\ skipped_no_file = <<>>
    /\ skipped_no_overlap = <<>>
    /\ skipped_no_data = <<>>
    /\ skipped_other_error = <<>>
    /\ bs_written = FALSE

SplitIdle ==
    /\ sp_pc = "off"
    /\ sp_script = "none"
    /\ sp_shapefile = FALSE
    /\ sp_end_year = 0
    /\ sp_i = 0
    /\ current_start_year = 0
    /\ futures = <<>>

OtherIdle == GridIdle /\ HandoverIdle /\ BsIdle /\ SplitIdle

StageIdle == DemIdle /\ NlcdIdle /\ QuantIdle /\ OtherIdle

Init ==
    /\ pc = "start"
    /\ error = "none"
    /\ dem_exists \in BOOLEAN
    /\ dem_cells \in (IF dem_exists THEN DemCoverages ELSE {{}})
    /\ prism_by_year = <<>>
    /\ mtbs_by_year = <<>>
    /\ ndvi_by_year = <<>>
    /\ nlcd_by_year = {}
    /\ all_years = <<>>
    /\ yi = 0
    /\ temp_exists = FALSE
    /\ temp = <<>>
    /\ prism_file = NoFile
    /\ mtbs_file = NoFile
    /\ ndvi_file = NoFile
    /\ nlcd_file = NoFile
    /\ dem_file = NoFile
    /\ merged_year_files = <<>>
    /\ combined = EmptyTable
    /\ output_written = FALSE
    /\ output = EmptyTable
    /\ no_base = {}
    /\ concat_read = {}
    /\ loaded = {}
    /\ base_rows = 0
    /\ prism_df = EmptyTable
    /\ mtbs_df = EmptyTable
    /\ ndvi_df = EmptyTable
    /\ nlcd_df = EmptyTable
    /\ dem_df = EmptyTable
    /\ sd_files = NoSdFiles
    /\ StageIdle

\* ensure_temp_dir and the four globs
Main_Gather ==
    /\ pc = "start"
    /\ temp_exists' = TRUE
    /\ \E ys \in SUBSET Years : all_years' = SortedYears(ys)
    /\ pc' = "load_dem"
    /\ UNCHANGED <<error, ca_inputs, listings, yi, temp, year_files, dem_file,
                   merged_year_files, combined, output_written, output,
                   no_base, concat_read, loaded, base_rows, sd_vars, stage_vars>>

Main_LoadDem ==
    /\ pc = "load_dem"
    /\ IF dem_exists
       THEN /\ temp' = write_parquet(temp, FileName("dem", 0, 0), load_dem(dem_cells))
            /\ dem_file' = FileName("dem", 0, 0)
            /\ yi' = 1
            /\ pc' = LoopPc(1)
            /\ error' = error
            /\ loaded' = loaded \cup {"dem"}
       ELSE /\ error' = "FileNotFoundError"
            /\ pc' = "finally"
            /\ UNCHANGED <<temp, dem_file, yi, loaded>>
    /\ UNCHANGED <<ca_inputs, listings, all_years, temp_exists, year_files,
                   merged_year_files, combined, output_written, output,
                   no_base, concat_read, base_rows, sd_vars, stage_vars>>

Main_PrismYear ==
    /\ pc = "prism_year"
    /\ \E files_by_month \in PrismListings :
        /\ prism_by_year' = DictPut(prism_by_year, year, files_by_month)
        /\ IF PrismMonths(files_by_month) = {}
           THEN /\ prism_file' = NoFile
                /\ no_base' = no_base \cup {year}
                /\ yi' = yi + 1
                /\ pc' = LoopPc(yi + 1)
                /\ temp' = temp
                /\ loaded' = loaded
                /\ base_rows' = base_rows
           ELSE /\ temp' = write_parquet(temp, FileName("prism_year", year, 0),
                                         process_prism_year(year, files_by_month))
                /\ prism_file' = FileName("prism_year", year, 0)
                /\ pc' = "mtbs_year"
                /\ loaded' = loaded \cup {"prism"}
                /\ base_rows' = Len(process_prism_year(year, files_by_month).rows)
                /\ UNCHANGED <<no_base, yi>>
    /\ UNCHANGED <<error, ca_inputs, mtbs_by_year, ndvi_by_year, nlcd_by_year,
                   all_years, temp_exists, mtbs_file, ndvi_file, nlcd_file,
                   dem_file, merged_year_files, combined, output_written,
                   output, concat_read, sd_vars, stage_vars>>

\* the monthly files written before the file of month bad failed to open
MonthlyFiles(dir, kind, field, y, months, days, bad) ==
    [f \in (DOMAIN dir) \cup {FileName(kind, y, m) : m \in {x \in months : x < bad}} |->
        IF f \in DOMAIN dir THEN dir[f]
        ELSE MonthlyTable(kind, field, y, f[3], days[f[3]])]

Main_MtbsYear ==
    /\ pc = "mtbs_year"
    /\ \E files_by_month \in MtbsListings :
        IF files_by_month = {}
        THEN /\ mtbs_file' = NoFile
             /\ pc' = "ndvi_year"
             /\ UNCHANGED <<mtbs_by_year, temp, error, loaded>>
        ELSE /\ mtbs_by_year' = DictPut(mtbs_by_year, year, files_by_month)
             /\ \E bad \in {0} \cup files_by_month :
                 IF bad = 0
                 THEN /\ temp' = write_parquet(temp, FileName("mtbs_year", year, 0),
                                               process_mtbs_year(year, files_by_month))
                      /\ mtbs_file' = FileName("mtbs_year", year, 0)
                      /\ pc' = "ndvi_year"
                      /\ error' = error
                      /\ loaded' = loaded \cup {"mtbs"}
                 ELSE /\ temp' = MonthlyFiles(temp, "mtbs", "burned_area", year,
                                    files_by_month, [m \in files_by_month |-> 0], bad)
                      /\ error' = "ReadError"
                      /\ pc' = "finally"
                      /\ mtbs_file' = NoFile
                      /\ loaded' = loaded
    /\ UNCHANGED <<ca_inputs, prism_by_year, ndvi_by_year, nlcd_by_year,
                   all_years, yi, temp_exists, prism_file, ndvi_file, nlcd_file,
                   dem_file, merged_year_files, combined, output_written,
                   output, no_base, concat_read, base_rows, sd_vars, stage_vars>>

Main_NdviYear ==
    /\ pc = "ndvi_year"
    /\ \E files \in NdviListings :
        IF files = {}
        THEN /\ ndvi_file' = NoFile
             /\ pc' = "nlcd_year"
             /\ UNCHANGED <<ndvi_by_year, temp, error, loaded>>
        ELSE \E files_by_month \in NdviDicts(files) :
             /\ ndvi_by_year' = DictPut(ndvi_by_year, year, files_by_month)
             /\ \E bad \in {0} \cup DOMAIN files_by_month :
                 IF bad = 0
                 THEN /\ temp' = write_parquet(temp, FileName("ndvi_year", year, 0),
                                               process_ndvi_year(year, files_by_month))
                      /\ ndvi_file' = FileName("ndvi_year", year, 0)
                      /\ pc' = "nlcd_year"
                      /\ error' = error
                      /\ loaded' = loaded \cup {"ndvi"}
                 ELSE /\ temp' = MonthlyFiles(temp, "ndvi", "ndvi", year,
                                    DOMAIN files_by_month, files_by_month, bad)
                      /\ error' = "ReadError"
                      /\ pc' = "finally"
                      /\ ndvi_file' = NoFile
                      /\ loaded' = loaded
    /\ UNCHANGED <<ca_inputs, prism_by_year, mtbs_by_year, nlcd_by_year,
                   all_years, yi, temp_exists, prism_file, mtbs_file, nlcd_file,
                   dem_file, merged_year_files, combined, output_written,
                   output, no_base, concat_read, base_rows, sd_vars, stage_vars>>

Main_NlcdYear ==
    /\ pc = "nlcd_year"
    /\ \E found \in BOOLEAN :
        IF ~found
        THEN /\ nlcd_file' = NoFile
             /\ pc' = "merge_year"
             /\ UNCHANGED <<nlcd_by_year, temp, error, loaded>>
        ELSE /\ nlcd_by_year' = nlcd_by_year \cup {year}
             /\ \E readable \in BOOLEAN :
                 IF readable
                 THEN /\ temp' = write_parquet(temp, FileName("nlcd_year", year, 0),
                                               process_nlcd_year(year))
                      /\ nlcd_file' = FileName("nlcd_year", year, 0)
                      /\ pc' = "merge_year"
                      /\ error' = error
                      /\ loaded' = loaded \cup {"nlcd"}
                 ELSE /\ error' = "ReadError"
                      /\ pc' = "finally"
                      /\ nlcd_file' = NoFile
                      /\ temp' = temp
                      /\ loaded' = loaded
    /\ UNCHANGED <<ca_inputs, prism_by_year, mtbs_by_year, ndvi_by_year,
                   all_years, yi, temp_exists, prism_file, mtbs_file, ndvi_file,
                   dem_file, merged_year_files, combined, output_written,
                   output, no_base, concat_read, base_rows, sd_vars, stage_vars>>

Main_MergeYear ==
    /\ pc = "merge_year"
    /\ temp' = write_parquet(temp, FileName("merged_year", year, 0),
                  merge_year_data(temp, prism_file, mtbs_file, ndvi_file,
                                  nlcd_file, dem_file))
    /\ merged_year_files' = Append(merged_year_files, FileName("merged_year", year, 0))
    /\ pc' = "cleanup_year"
    /\ UNCHANGED <<error, ca_inputs, listings, all_years, yi, temp_exists,
                   year_files, dem_file, combined, output_written, output,
                   no_base, concat_read, loaded, base_rows, sd_vars, stage_vars>>

Main_CleanupYear ==
    /\ pc = "cleanup_year"
    /\ temp' = delete_files(temp, {prism_file, mtbs_file, ndvi_file, nlcd_file} \ {NoFile})
    /\ yi' = yi + 1
    /\ pc' = LoopPc(yi + 1)
    /\ UNCHANGED <<error, ca_inputs, listings, all_years, temp_exists,
                   year_files, dem_file, merged_year_files, combined,
                   output_written, output, no_base, concat_read, loaded, base_rows, sd_vars, stage_vars>>

Main_DeleteDem ==
    /\ pc = "delete_dem"
    /\ temp' = delete_files(temp, {dem_file})
    /\ pc' = "concat"
    /\ UNCHANGED <<error, ca_inputs, listings, all_years, yi, temp_exists,
                   year_files, dem_file, merged_year_files, combined,
                   output_written, output, no_base, concat_read, loaded, base_rows, sd_vars, stage_vars>>

\* pl.concat([pl.scan_parquet(f) for f in merged_year_files]).collect();
\* "ConcatError" stands for the exception polars raises on an empty list or
\* on tables of different schemas.
Main_Concat ==
    /\ pc = "concat"
    /\ LET ts == [i \in DOMAIN merged_year_files |-> temp[merged_year_files[i]]]
       IN  IF concat_ok(ts)
           THEN /\ combined' = concat(ts)
                /\ concat_read' = SeqToSet(merged_year_files)
                /\ pc' = "verify"
                /\ error' = error
           ELSE /\ error' = "ConcatError"
                /\ pc' = "finally"
                /\ UNCHANGED <<combined, concat_read>>
    /\ UNCHANGED <<ca_inputs, listings, all_years, yi, temp_exists, temp,
                   year_files, dem_file, merged_year_files, output_written,
                   output, no_base, loaded, base_rows, sd_vars, stage_vars>>

Main_Verify ==
    /\ pc = "verify"
    /\ IF verify_final_output(combined) # <<>>
       THEN /\ error' = "ValueError"
            /\ pc' = "finally"
       ELSE /\ error' = error
            /\ pc' = "save"
    /\ UNCHANGED <<ca_inputs, listings, all_years, yi, temp_exists, temp,
                   year_files, dem_file, merged_year_files, combined,
                   output_written, output, no_base, concat_read, loaded, base_rows, sd_vars, stage_vars>>

Main_Save ==
    /\ pc = "save"
    /\ output' = combined
    /\ output_written' = TRUE
    /\ pc' = "delete_merged"
    /\ UNCHANGED <<error, ca_inputs, listings, all_years, yi, temp_exists, temp,
                   year_files, dem_file, merged_year_files, combined,
                   no_base, concat_read, loaded, base_rows, sd_vars, stage_vars>>

Main_DeleteMerged ==
    /\ pc = "delete_merged"
    /\ temp' = delete_files(temp, SeqToSet(merged_year_files))
    /\ pc' = "finally"
    /\ UNCHANGED <<error, ca_inputs, listings, all_years, yi, temp_exists,
                   year_files, dem_file, merged_year_files, combined,
                   output_written, output, no_base, concat_read, loaded, base_rows, sd_vars, stage_vars>>

\* finally: cleanup_temp_dir()
Main_Finally ==
    /\ pc = "finally"
    /\ temp' = IF temp_exists THEN <<>> ELSE temp
    /\ temp_exists' = FALSE
    /\ pc' = "done"
    /\ UNCHANGED <<error, ca_inputs, listings, all_years, yi, year_files,
                   dem_file, merged_year_files, combined, output_written,
                   output, no_base, concat_read, loaded, base_rows, sd_vars, stage_vars>>

Next ==
    \/ Main_Gather
    \/ Main_LoadDem
    \/ Main_PrismYear
    \/ Main_MtbsYear
    \/ Main_NdviYear
    \/ Main_NlcdYear
    \/ Main_MergeYear
    \/ Main_CleanupYear
    \/ Main_DeleteDem
    \/ Main_Concat
    \/ Main_Verify
    \/ Main_Save
    \/ Main_DeleteMerged
    \/ Main_Finally

Spec == Init /\ [][Next]_vars

\* =========================================================================
\* combine_dataset.py
\* =========================================================================
RECURSIVE RowLess(_, _, _)
\* lexicographic order of two rows on the key columns ks
RowLess(a, b, ks) ==
    IF ks = <<>> THEN FALSE
    ELSE IF a[Head(ks)] # b[Head(ks)] THEN a[Head(ks)] < b[Head(ks)]
    ELSE RowLess(a, b, Tail(ks))

RECURSIVE InsertRow(_, _, _)
InsertRow(x, sorted, ks) ==
    IF sorted = <<>> THEN <<x>>
    ELSE IF RowLess(x, Head(sorted), ks) THEN <<x>> \o sorted
    ELSE <<Head(sorted)>> \o InsertRow(x, Tail(sorted), ks)

RECURSIVE SortRows(_, _)
SortRows(rows, ks) ==
    IF rows = <<>> THEN <<>>
    ELSE InsertRow(rows[Len(rows)], SortRows(SubSeq(rows, 1, Len(rows) - 1), ks), ks)

\* pd.merge(l, r, on=ks, how='outer'): the union of the keys, sorted
merge_outer(l, r, ks) ==
    LET on == SeqToSet(ks)
        cs == SeqToSet(JoinCols(l, r, on))
        unmatched == SelectSeq(r.rows,
                        LAMBDA rr : \A i \in DOMAIN l.rows :
                                        \E k \in on : l.rows[i][k] # rr[k])
        right_only == [i \in DOMAIN unmatched |->
                        [c \in cs |-> IF c \in ColSet(r) THEN unmatched[i][c] ELSE Null]]
    IN  [cols |-> JoinCols(l, r, on),
         rows |-> SortRows(join_left(l, r, on).rows \o right_only, ks)]

RECURSIVE SortedFiles(_)
\* files.sort(...) of a set of <<year, month, day>> names
SortedFiles(S) ==
    IF S = {} THEN <<>>
    ELSE LET lo == CHOOSE x \in S : \A y \in S :
                      \/ x[1] < y[1]
                      \/ x[1] = y[1] /\ x[2] < y[2]
                      \/ x[1] = y[1] /\ x[2] = y[2] /\ x[3] <= y[3]
         IN  <<lo>> \o SortedFiles(S \ {lo})

\* the DataFrame of one monthly file, columns as selected by the loaders
SdMonthlyTable(src, field, y, m, d) ==
    [cols |-> <<"lat", "lon", "year", "month", field>>,
     rows |-> [c \in 1..NumCells |->
        [k \in {"lat", "lon", "year", "month", field} |->
            CASE k = "lat" -> pd_round5(RawLat(src, c))
              [] k = "lon" -> pd_round5(RawLon(src, c))
              [] k = "year" -> y
              [] k = "month" -> m
              [] OTHER -> DataValue(field, c, y, m, d)]]]

\* pd.concat(dfs, ignore_index=True) raises on an empty list
pd_concat_ok(dfs) == Len(dfs) > 0

\* var_combined of one variable
PrismVarTable(files, var) ==
    LET fs == SortedFiles({<<f[2], f[3], 0>> : f \in {g \in files : g[1] = var}})
    IN  IF fs = <<>> THEN EmptyTable
        ELSE concat([i \in DOMAIN fs |-> SdMonthlyTable("prism", var, fs[i][1], fs[i][2], 0)])

RECURSIVE PrismOuter(_, _)
PrismOuter(files, n) ==
    IF n = 1 THEN PrismVarTable(files, vars_list[1])
    ELSE merge_outer(PrismOuter(files, n - 1), PrismVarTable(files, vars_list[n]),
                     <<"lat", "lon", "year", "month">>)

\* verify_prism cannot fail on a table that has a column per variable
load_and_process_prism(files) == PrismOuter(files, Len(vars_list))

load_and_process_mtbs(files) ==
    LET fs == SortedFiles({<<f[1], f[2], 0>> : f \in files})
    IN  concat([i \in DOMAIN fs |->
                  SdMonthlyTable("mtbs", "burned_area", fs[i][1], fs[i][2], 0)])

\* one DataFrame per file, also when two files share a year and a month
load_and_process_ndvi(files) ==
    LET fs == SortedFiles(files)
    IN  concat([i \in DOMAIN fs |->
                  SdMonthlyTable("ndvi", "ndvi", fs[i][1], fs[i][2], fs[i][3])])

load_and_process_nlcd(files) ==
    LET ys == SortedSeq(files)
    IN  concat([i \in DOMAIN ys |->
          [cols |-> <<"lat", "lon", "year", "landcover">>,
           rows |-> [c \in 1..NumCells |->
              [k \in {"lat", "lon", "year", "landcover"} |->
                  CASE k = "lat" -> pd_round5(RawLat("nlcd", c))
                    [] k = "lon" -> pd_round5(RawLon("nlcd", c))
                    [] k = "year" -> ys[i]
                    [] OTHER -> DataValue("landcover", c, ys[i], 0, 0)]]]])

load_and_process_dem(cells) ==
    LET cs == SortedSeq(cells)
    IN  [cols |-> <<"lat", "lon", "elevation", "slope", "aspect">>,
         rows |-> [i \in DOMAIN cs |->
            [k \in {"lat", "lon", "elevation", "slope", "aspect"} |->
                CASE k = "lat" -> pd_round5(RawLat("dem", cs[i]))
                  [] k = "lon" -> pd_round5(RawLon("dem", cs[i]))
                  [] OTHER -> DataValue(k, cs[i], START_YEAR, 0, 0)]]]

\* ---- the files the globs of a run can discover
AllMonths == Years \X Months

SdPrismListings ==
    { {<<v, ym[1], ym[2]>> : v \in VarsSet, ym \in AllMonths},
      {<<v, ym[1], ym[2]>> : v \in VarsSet, ym \in AllMonths}
          \ {<<"vpdmax", START_YEAR, NumMonths>>},
      {<<v, START_YEAR, 1>> : v \in VarsSet},
      {<<v, START_YEAR, 1>> : v \in VarsSet \ {"tmax"}} }

SdMtbsListings == { AllMonths, {<<START_YEAR, 1>>}, {} }

SdNdviListings ==
    { {<<ym[1], ym[2], 1>> : ym \in AllMonths},
      {<<START_YEAR, 1, d>> : d \in Days},
      {} }

SdNlcdListings == { Years, {START_YEAR}, {} }

SdListings ==
    [prism : SdPrismListings, mtbs : SdMtbsListings,
     ndvi : SdNdviListings, nlcd : SdNlcdListings]

ca_vars == <<prism_by_year, mtbs_by_year, ndvi_by_year, nlcd_by_year, all_years,
             yi, temp_exists, temp, prism_file, mtbs_file, ndvi_file, nlcd_file,
             dem_file, merged_year_files, no_base, concat_read>>

InitSD ==
    /\ pc = "sd_prism"
    /\ error = "none"
    /\ dem_exists \in BOOLEAN
    /\ dem_cells \in (IF dem_exists THEN DemCoverages ELSE {{}})
    /\ sd_files \in SdListings
    /\ prism_by_year = <<>>
    /\ mtbs_by_year = <<>>
    /\ ndvi_by_year = <<>>
    /\ nlcd_by_year = {}
    /\ all_years = <<>>
    /\ yi = 0
    /\ temp_exists = FALSE
    /\ temp = <<>>
    /\ prism_file = NoFile
    /\ mtbs_file = NoFile
    /\ ndvi_file = NoFile
    /\ nlcd_file = NoFile
    /\ dem_file = NoFile
    /\ merged_year_files = <<>>
    /\ combined = EmptyTable
    /\ output_written = FALSE
    /\ output = EmptyTable
    /\ no_base = {}
    /\ concat_read = {}
    /\ loaded = {}
    /\ base_rows = 0
    /\ prism_df = EmptyTable
    /\ mtbs_df = EmptyTable
    /\ ndvi_df = EmptyTable
    /\ nlcd_df = EmptyTable
    /\ dem_df = EmptyTable
    /\ StageIdle

\* "ConcatError" stands for the ValueError of pd.concat on an empty list
SD_LoadPrism ==
    /\ pc = "sd_prism"
    /\ IF \A v \in VarsSet : \E f \in sd_files.prism : f[1] = v
       THEN /\ prism_df' = load_and_process_prism(sd_files.prism)
            /\ base_rows' = Len(load_and_process_prism(sd_files.prism).rows)
            /\ loaded' = loaded \cup {"prism"}
            /\ pc' = "sd_mtbs"
            /\ error' = error
       ELSE /\ error' = "ConcatError"
            /\ pc' = "sd_done"
            /\ UNCHANGED <<prism_df, base_rows, loaded>>
    /\ UNCHANGED <<stage_vars, ca_inputs, ca_vars, combined, output_written, output,
                   mtbs_df, ndvi_df, nlcd_df, dem_df, sd_files>>

SD_LoadMtbs ==
    /\ pc = "sd_mtbs"
    /\ IF sd_files.mtbs # {}
       THEN /\ mtbs_df' = load_and_process_mtbs(sd_files.mtbs)
            /\ loaded' = loaded \cup {"mtbs"}
            /\ pc' = "sd_merge_mtbs"
            /\ error' = error
       ELSE /\ error' = "ConcatError"
            /\ pc' = "sd_done"
            /\ UNCHANGED <<mtbs_df, loaded>>
    /\ UNCHANGED <<stage_vars, ca_inputs, ca_vars, combined, output_written, output,
                   base_rows, prism_df, ndvi_df, nlcd_df, dem_df, sd_files>>

SD_MergeMtbs ==
    /\ pc = "sd_merge_mtbs"
    /\ combined' = join_left(prism_df, mtbs_df, {"lat", "lon", "year", "month"})
    /\ prism_df' = EmptyTable
    /\ mtbs_df' = EmptyTable
    /\ pc' = "sd_ndvi"
    /\ UNCHANGED <<error, stage_vars, ca_inputs, ca_vars, output_written, output, loaded,
                   base_rows, ndvi_df, nlcd_df, dem_df, sd_files>>

SD_LoadNdvi ==
    /\ pc = "sd_ndvi"
    /\ IF sd_files.ndvi # {}
       THEN /\ ndvi_df' = load_and_process_ndvi(sd_files.ndvi)
            /\ loaded' = loaded \cup {"ndvi"}
            /\ pc' = "sd_merge_ndvi"
            /\ error' = error
       ELSE /\ error' = "ConcatError"
            /\ pc' = "sd_done"
            /\ UNCHANGED <<ndvi_df, loaded>>
    /\ UNCHANGED <<stage_vars, ca_inputs, ca_vars, combined, output_written, output,
                   base_rows, prism_df, mtbs_df, nlcd_df, dem_df, sd_files>>

SD_MergeNdvi ==
    /\ pc = "sd_merge_ndvi"
    /\ combined' = join_left(combined, ndvi_df, {"lat", "lon", "year", "month"})
    /\ ndvi_df' = EmptyTable
    /\ pc' = "sd_nlcd"
    /\ UNCHANGED <<error, stage_vars, ca_inputs, ca_vars, output_written, output, loaded,
                   base_rows, prism_df, mtbs_df, nlcd_df, dem_df, sd_files>>

SD_LoadNlcd ==
    /\ pc = "sd_nlcd"
    /\ IF sd_files.nlcd # {}
       THEN /\ nlcd_df' = load_and_process_nlcd(sd_files.nlcd)
            /\ loaded' = loaded \cup {"nlcd"}
            /\ pc' = "sd_merge_nlcd"
            /\ error' = error
       ELSE /\ error' = "ConcatError"
            /\ pc' = "sd_done"
            /\ UNCHANGED <<nlcd_df, loaded>>
    /\ UNCHANGED <<stage_vars, ca_inputs, ca_vars, combined, output_written, output,
                   base_rows, prism_df, mtbs_df, ndvi_df, dem_df, sd_files>>

SD_MergeNlcd ==
    /\ pc = "sd_merge_nlcd"
    /\ combined' = join_left(combined, nlcd_df, {"lat", "lon", "year"})
    /\ nlcd_df' = EmptyTable
    /\ pc' = "sd_dem"
    /\ UNCHANGED <<error, stage_vars, ca_inputs, ca_vars, output_written, output, loaded,
                   base_rows, prism_df, mtbs_df, ndvi_df, dem_df, sd_files>>

SD_LoadDem ==
    /\ pc = "sd_dem"
    /\ IF dem_exists
       THEN /\ dem_df' = load_and_process_dem(dem_cells)
            /\ loaded' = loaded \cup {"dem"}
            /\ pc' = "sd_merge_dem"
            /\ error' = error
       ELSE /\ error' = "FileNotFoundError"
            /\ pc' = "sd_done"
            /\ UNCHANGED <<dem_df, loaded>>
    /\ UNCHANGED <<stage_vars, ca_inputs, ca_vars, combined, output_written, output,
                   base_rows, prism_df, mtbs_df, ndvi_df, nlcd_df, sd_files>>

SD_MergeDem ==
    /\ pc = "sd_merge_dem"
    /\ combined' = join_left(combined, dem_df, {"lat", "lon"})
    /\ dem_df' = EmptyTable
    /\ pc' = "sd_verify"
    /\ UNCHANGED <<error, stage_vars, ca_inputs, ca_vars, output_written, output, loaded,
                   base_rows, prism_df, mtbs_df, ndvi_df, nlcd_df, sd_files>>

SD_Verify ==
    /\ pc = "sd_verify"
    /\ IF verify_final_output(combined) # <<>>
       THEN /\ error' = "ValueError"
            /\ pc' = "sd_done"
       ELSE /\ error' = error
            /\ pc' = "sd_save"
    /\ UNCHANGED <<stage_vars, ca_inputs, ca_vars, combined, output_written, output, loaded,
                   base_rows, sd_vars>>

SD_Save ==
    /\ pc = "sd_save"
    /\ output' = combined
    /\ output_written' = TRUE
    /\ pc' = "sd_done"
    /\ UNCHANGED <<error, stage_vars, ca_inputs, ca_vars, combined, loaded, base_rows, sd_vars>>

NextSD ==
    \/ SD_LoadPrism
    \/ SD_LoadMtbs
    \/ SD_MergeMtbs
    \/ SD_LoadNdvi
    \/ SD_MergeNdvi
    \/ SD_LoadNlcd
    \/ SD_MergeNlcd
    \/ SD_LoadDem
    \/ SD_MergeDem
    \/ SD_Verify
    \/ SD_Save

SpecSD == InitSD /\ [][NextSD]_vars

TypeOK ==
    /\ pc \in {"start", "load_dem", "prism_year", "mtbs_year", "ndvi_year",
               "nlcd_year", "merge_year", "cleanup_year", "delete_dem",
               "concat", "verify", "save", "delete_merged", "finally", "done",
               "sd_prism", "sd_mtbs", "sd_merge_mtbs", "sd_ndvi", "sd_merge_ndvi",
               "sd_nlcd", "sd_merge_nlcd", "sd_dem", "sd_merge_dem",
               "sd_verify", "sd_save", "sd_done"}
    /\ error \in {"none", "FileNotFoundError", "ReadError", "ConcatError", "ValueError"}

\* Both combine runs: a run of either script.
InitBoth == Init \/ InitSD
NextBoth == Next \/ NextSD
SpecBoth == InitBoth /\ [][NextBoth]_vars

\* =========================================================================
\* ca_data_processing/process_dem_data.py
\* =========================================================================
\* The combine scripts at rest.
CombineIdle ==
    /\ pc = "off"
    /\ error = "none"
    /\ dem_exists = FALSE
    /\ dem_cells = {}
    /\ prism_by_year = <<>>
    /\ mtbs_by_year = <<>>
    /\ ndvi_by_year = <<>>
    /\ nlcd_by_year = {}
    /\ all_years = <<>>
    /\ yi = 0
    /\ temp_exists = FALSE
    /\ temp = <<>>
    /\ prism_file = NoFile
    /\ mtbs_file = NoFile
    /\ ndvi_file = NoFile
    /\ nlcd_file = NoFile
    /\ dem_file = NoFile
    /\ merged_year_files = <<>>
    /\ combined = EmptyTable
    /\ output_written = FALSE
    /\ output = EmptyTable
    /\ no_base = {}
    /\ concat_read = {}
    /\ loaded = {}
    /\ base_rows = 0
    /\ prism_df = EmptyTable
    /\ mtbs_df = EmptyTable
    /\ ndvi_df = EmptyTable
    /\ nlcd_df = EmptyTable
    /\ dem_df = EmptyTable
    /\ sd_files = NoSdFiles

combine_vars == <<pc, error, ca_inputs, ca_vars, combined, output_written, output,
                  loaded, base_rows, sd_vars>>

\* ------------------------------------------------------------ float values
\* A sample value is an integer or nan.  Gradient components and slopes are
\* in units of 8e-12, so that means within atol = 1e-12 of zero occur:
\* atol is 1/8 of a unit and the replacement value 1e-3 is 125000000 units.
nan == -1000000
atol == [n |-> 1, d |-> 8]
clamp_x == 125000000

IsNan(x) == x = nan

Abs(x) == IF x < 0 THEN -x ELSE x

RECURSIVE GCD(_, _)
GCD(a, b) == IF b = 0 THEN a ELSE GCD(b, a % b)

\* A quotient of two floats, kept exact: n / d in lowest terms, d > 0;
\* NanQ is nan (0 / 0) and x / 0 is an infinity, as in numpy.
NanQ == [n |-> 0, d |-> 0]
Quot(a, b) ==
    IF b = 0 THEN [n |-> (IF a > 0 THEN 1 ELSE IF a < 0 THEN -1 ELSE 0), d |-> 0]
    ELSE LET g == GCD(Abs(a), Abs(b))
             sg == IF b < 0 THEN -1 ELSE 1
         IN  [n |-> sg * (a \div g), d |-> sg * (b \div g)]
IsNanQ(q) == q.d = 0 /\ q.n = 0
IsFiniteQ(q) == q.d > 0

\* np.hypot on the values that occur
hypot(a, b) ==
    IF IsNan(a) \/ IsNan(b) THEN nan
    ELSE CHOOSE h \in 0..(Abs(a) + Abs(b)) : h * h = a * a + b * b

\* np.arctan2(y, x) of two quotients: the angle is kept as the direction
\* <<dy, dx>> in lowest terms, which determines it; arctan2(0, 0) is the
\* angle of <<0, 1>>.
NanAngle == [dy |-> 0, dx |-> 0]
arctan2(y, x) ==
    IF ~IsFiniteQ(y) \/ ~IsFiniteQ(x) THEN NanAngle
    ELSE LET a == y.n * x.d
             b == x.n * y.d
             g == GCD(Abs(a), Abs(b))
         IN  IF g = 0 THEN [dy |-> 0, dx |-> 1]
             ELSE [dy |-> a \div g, dx |-> b \div g]

\* np.isclose(q, 0, atol=1e-12)
isclose0(q) == IsFiniteQ(q) /\ Abs(q.n) * atol.d <= atol.n * q.d

\* ------------------------------------------------------------------- tiles
\* A clipped tile is a 2 x 2 raster; pixels 1, 2 are its first row and 3, 4
\* its second.  elev is the elevation of the pixels, cell the coarse cell
\* whose bin a pixel centre falls in (0: outside every bin).
Pixels == 1..4
RowMate(p) == CASE p = 1 -> 2 [] p = 2 -> 1 [] p = 3 -> 4 [] OTHER -> 3
ColMate(p) == CASE p = 1 -> 3 [] p = 3 -> 1 [] p = 2 -> 4 [] OTHER -> 2

TileRaster(k) ==
    CASE k = "east"  -> [elev |-> <<10, 11, 10, 11>>, cell |-> <<1, 1, 1, 1>>]
      [] k = "west"  -> [elev |-> <<11, 10, 11, 10>>, cell |-> <<1, 1, 1, 1>>]
      [] k = "edge"  -> [elev |-> <<nan, 15, 14, 15>>, cell |-> <<1, 2, 1, 2>>]
      [] OTHER       -> [elev |-> <<nan, nan, nan, nan>>, cell |-> <<0, 0, 0, 0>>]

\* what a tile file can turn out to hold
ReadableTiles == {"east", "west", "edge"}
SkippedTiles == {"no_intersect", "clip_error", "empty_clip", "no_valid"}
FailedTiles == {"unreadable"}
TileFiles == ReadableTiles \cup SkippedTiles \cup FailedTiles

\* np.gradient of a 2 x 2 array: the one-sided difference along each axis
grad_x(elev, p) ==
    LET l == IF p \in {1, 3} THEN p ELSE RowMate(p)
        r == RowMate(l)
    IN  IF IsNan(elev[l]) \/ IsNan(elev[r]) THEN nan ELSE elev[r] - elev[l]

grad_y(elev, p) ==
    LET t == IF p \in {1, 2} THEN p ELSE ColMate(p)
        b == ColMate(t)
    IN  IF IsNan(elev[t]) \/ IsNan(elev[b]) THEN nan ELSE elev[b] - elev[t]

calculate_slope_aspect_tile(elev) ==
    [elev  |-> elev,
     sx    |-> [p \in Pixels |-> grad_x(elev, p)],
     sy    |-> [p \in Pixels |-> grad_y(elev, p)],
     slope |-> [p \in Pixels |-> hypot(grad_x(elev, p), grad_y(elev, p))]]

RECURSIVE SumOver(_, _)
SumOver(f, S) ==
    IF S = {} THEN 0
    ELSE LET x == CHOOSE x \in S : TRUE IN f[x] + SumOver(f, S \ {x})

\* the samples of a tile that fall in cell c: mask = ~np.isnan(elev_flat)
mask(raster) == {p \in Pixels : ~IsNan(raster.elev[p])}
InBin(raster, c) == {p \in mask(raster) : raster.cell[p] = c}

\* np.nan_to_num(binned_statistic_2d(..., statistic='sum')): the sum of a
\* bin that holds a nan value is nan, which nan_to_num turns into 0.
get_binned_sum(values, raster) ==
    [c \in Cells |->
        IF \E p \in InBin(raster, c) : IsNan(values[p]) THEN 0
        ELSE SumOver(values, InBin(raster, c))]

get_binned_count(raster) == [c \in Cells |-> Cardinality(InBin(raster, c))]

\* local_count, local_elev, local_slope, local_sx, local_sy of a tile
LocalStats(k) ==
    LET raster == TileRaster(k)
        fine == calculate_slope_aspect_tile(raster.elev)
    IN  [count |-> get_binned_count(raster),
         elev  |-> get_binned_sum(fine.elev, raster),
         slope |-> get_binned_sum(fine.slope, raster),
         sx    |-> get_binned_sum(fine.sx, raster),
         sy    |-> get_binned_sum(fine.sy, raster)]

\* the local statistics of every raster
LocalTable == [k \in ReadableTiles |-> LocalStats(k)]

\* ------------------------------------------------------------ main, workers
InitDem ==
    /\ CombineIdle
    /\ NlcdIdle
    /\ QuantIdle
    /\ OtherIdle
    /\ dem_pc = "start"
    /\ dem_error = "none"
    /\ prism_ref_exists \in BOOLEAN
    /\ ca_state_exists \in BOOLEAN
    /\ dem_files \in {{}, Tiles}
    /\ submitted = 0
    /\ tile_data = [t \in Tiles |-> "unopened"]
    /\ tile_status = [t \in Tiles |-> "new"]
    /\ w_pc = [w \in Workers |-> "idle"]
    /\ w_tile = [w \in Workers |-> 0]
    /\ w_local = [w \in Workers |-> ZeroAccumulators]
    /\ w_reg = [w \in Workers |-> ZeroGrid]
    /\ w_k = [w \in Workers |-> 0]
    /\ stats_lock = 0
    /\ accumulators = ZeroAccumulators
    /\ merged_into = [n \in SeqToSet(AccNames) |-> {}]
    /\ fin = NoFin
    /\ divided = {}
    /\ dem_written = FALSE
    /\ dem_stdout = {}

not_dem_vars == <<combine_vars, nlcd_vars, quant_vars, other_vars>>
dem_inputs == <<prism_ref_exists, ca_state_exists, dem_files>>
worker_vars == <<w_pc, w_tile, w_local, w_reg, w_k>>
final_vars == <<fin, divided, dem_written>>

\* a printed line: who printed it, its text and the tile file it names (0: none)
Line(by, text, tile) == [by |-> by, text |-> text, tile |-> tile]

\* get_prism_grid
DemMain_Grid ==
    /\ dem_pc = "start"
    /\ IF prism_ref_exists
       THEN dem_pc' = "shape" /\ UNCHANGED dem_error
       ELSE dem_pc' = "done" /\ dem_error' = "FileNotFoundError"
    /\ UNCHANGED <<not_dem_vars, dem_stdout, dem_inputs, submitted, tile_data, tile_status,
                   worker_vars, stats_lock, accumulators, merged_into, final_vars>>

\* the boundary shape, or return
DemMain_Shape ==
    /\ dem_pc = "shape"
    /\ dem_pc' = IF ca_state_exists THEN "glob" ELSE "done"
    /\ dem_stdout' = IF ca_state_exists THEN dem_stdout
                     ELSE dem_stdout \cup {Line("main", "Error: CA State shapefile not found", 0)}
    /\ UNCHANGED <<not_dem_vars, dem_error, dem_inputs, submitted, tile_data,
                   tile_status, worker_vars, stats_lock, accumulators,
                   merged_into, final_vars>>

\* bin edges, zeroed accumulators, the lock and the glob, or return
DemMain_Glob ==
    /\ dem_pc = "glob"
    /\ accumulators' = ZeroAccumulators
    /\ stats_lock' = 0
    /\ dem_pc' = IF dem_files = {} THEN "done" ELSE "submit"
    /\ dem_stdout' = IF dem_files = {}
                     THEN dem_stdout \cup {Line("main", "No .tif files found", 0)}
                     ELSE dem_stdout
    /\ UNCHANGED <<not_dem_vars, dem_error, dem_inputs, submitted, tile_data,
                   tile_status, worker_vars, merged_into, final_vars>>

\* executor.submit of the next tile
DemMain_Submit ==
    /\ dem_pc = "submit"
    /\ submitted' = submitted + 1
    /\ tile_status' = [tile_status EXCEPT ![submitted + 1] = "queued"]
    /\ dem_pc' = IF submitted + 1 = Cardinality(dem_files) THEN "drain" ELSE "submit"
    /\ UNCHANGED <<not_dem_vars, dem_stdout, dem_error, dem_inputs, tile_data, worker_vars,
                   stats_lock, accumulators, merged_into, final_vars>>

Finished_any(t) == TRUE
Finished(t) == tile_status[t] \in {"skipped", "failed", "merged"}

\* as_completed(futures) and the exit of the executor block
DemMain_Drain ==
    /\ dem_pc = "drain"
    /\ \A t \in dem_files : Finished(t)
    /\ dem_pc' = "finalize"
    /\ UNCHANGED <<not_dem_vars, dem_stdout, dem_error, dem_inputs, submitted, tile_data,
                   tile_status, worker_vars, stats_lock, accumulators,
                   merged_into, final_vars>>

\* the tile at the head of the executor's work queue
QueueHead ==
    CHOOSE t \in Tiles : /\ tile_status[t] = "queued"
                         /\ \A u \in Tiles : tile_status[u] = "queued" => t <= u

\* process_single_file up to the merge step: nothing shared is touched
\* (the idle threads are interchangeable: the first of them takes the tile)
W_Start(w) ==
    /\ w_pc[w] = "idle"
    /\ \A v \in Workers : w_pc[v] = "idle" => w <= v
    /\ \E t \in Tiles : tile_status[t] = "queued"
    /\ \E k \in TileFiles :
        /\ IF k \in ReadableTiles
           THEN /\ tile_data' = [tile_data EXCEPT ![QueueHead] = k]
                /\ tile_status' = [tile_status EXCEPT ![QueueHead] = "running"]
                /\ w_tile' = [w_tile EXCEPT ![w] = QueueHead]
                /\ w_local' = [w_local EXCEPT ![w] = LocalTable[k]]
                /\ w_pc' = [w_pc EXCEPT ![w] = "acquire"]
                /\ UNCHANGED dem_stdout
           ELSE /\ tile_status' = [tile_status EXCEPT ![QueueHead] =
                                     IF k \in FailedTiles THEN "failed" ELSE "skipped"]
                \* except Exception: print; the early returns print nothing
                /\ dem_stdout' = IF k \in FailedTiles
                                 THEN dem_stdout \cup
                                      {Line("worker", "Warning: Failed to process", QueueHead)}
                                 ELSE dem_stdout
                /\ UNCHANGED <<tile_data, w_tile, w_local, w_pc>>
    /\ UNCHANGED <<not_dem_vars, dem_pc, dem_error, dem_inputs, submitted, w_reg,
                   w_k, stats_lock, accumulators, merged_into, final_vars>>

\* accumulators[name] += local, from the value read
iadd_overwrite(reg, local) == local
iadd(reg, local) == [c \in Cells |-> reg[c] + local[c]]

LockFree_always(lock) == TRUE
LockFree(lock) == lock = 0

\* with stats_lock:
W_Acquire(w) ==
    /\ w_pc[w] = "acquire"
    /\ LockFree(stats_lock)
    /\ stats_lock' = w
    /\ w_k' = [w_k EXCEPT ![w] = 1]
    /\ w_pc' = [w_pc EXCEPT ![w] = "read"]
    /\ UNCHANGED <<not_dem_vars, dem_stdout, dem_pc, dem_error, dem_inputs, submitted,
                   tile_data, tile_status, w_tile, w_local, w_reg, accumulators,
                   merged_into, final_vars>>

\* accumulators[name] += local: the read of the += ...
W_Read(w) ==
    /\ w_pc[w] = "read"
    /\ w_reg' = [w_reg EXCEPT ![w] = accumulators[AccNames[w_k[w]]]]
    /\ w_pc' = [w_pc EXCEPT ![w] = "write"]
    /\ UNCHANGED <<not_dem_vars, dem_stdout, dem_pc, dem_error, dem_inputs, submitted,
                   tile_data, tile_status, w_tile, w_local, w_k, stats_lock,
                   accumulators, merged_into, final_vars>>

\* ... and its write
W_Write(w) ==
    /\ w_pc[w] = "write"
    /\ LET name == AccNames[w_k[w]]
       IN  /\ accumulators' = [accumulators EXCEPT ![name] =
                                 iadd(w_reg[w], w_local[w][name])]
           /\ merged_into' = [merged_into EXCEPT ![name] = @ \cup {w_tile[w]}]
    /\ IF w_k[w] < Len(AccNames)
       THEN /\ w_k' = [w_k EXCEPT ![w] = @ + 1]
            /\ w_pc' = [w_pc EXCEPT ![w] = "read"]
       ELSE /\ w_pc' = [w_pc EXCEPT ![w] = "release"]
            /\ UNCHANGED w_k
    /\ UNCHANGED <<not_dem_vars, dem_stdout, dem_pc, dem_error, dem_inputs, submitted,
                   tile_data, tile_status, w_tile, w_local, w_reg, stats_lock,
                   final_vars>>

\* the end of the with block and of process_single_file
W_Release(w) ==
    /\ w_pc[w] = "release"
    /\ stats_lock' = 0
    /\ tile_status' = [tile_status EXCEPT ![w_tile[w]] = "merged"]
    /\ w_pc' = [w_pc EXCEPT ![w] = "idle"]
    /\ w_tile' = [w_tile EXCEPT ![w] = 0]
    /\ w_local' = [w_local EXCEPT ![w] = ZeroAccumulators]
    /\ w_reg' = [w_reg EXCEPT ![w] = ZeroGrid]
    /\ w_k' = [w_k EXCEPT ![w] = 0]
    /\ UNCHANGED <<not_dem_vars, dem_stdout, dem_pc, dem_error, dem_inputs, submitted,
                   tile_data, accumulators, merged_into, final_vars>>

\* valid = acc_count > 0
valid_all(acc, c) == TRUE
valid(acc, c) == acc["count"][c] > 0

\* fin[valid] = accumulators[name][valid] / acc_count[valid], nan elsewhere
Mean(acc, name, c) ==
    IF valid(acc, c) THEN Quot(acc[name][c], acc["count"][c]) ELSE NanQ

\* np.where(np.isclose(fin_sx, 0, atol=1e-12), 1e-3, fin_sx)
clamp_identity(q) == q
clamp(q) == IF isclose0(q) THEN Quot(clamp_x, 1) ELSE q

Finalize(acc) ==
    [elev    |-> [c \in Cells |-> Mean(acc, "elev", c)],
     slope   |-> [c \in Cells |-> Mean(acc, "slope", c)],
     sx      |-> [c \in Cells |-> Mean(acc, "sx", c)],
     sy      |-> [c \in Cells |-> Mean(acc, "sy", c)],
     sx_atan |-> [c \in Cells |-> clamp(Mean(acc, "sx", c))],
     aspect  |-> [c \in Cells |->
                    arctan2(Mean(acc, "sy", c), clamp(Mean(acc, "sx", c)))]]

\* Finalize Aggregation
DemMain_Finalize ==
    /\ dem_pc = "finalize"
    /\ fin' = Finalize(accumulators)
    /\ divided' = {c \in Cells : valid(accumulators, c)}
    /\ dem_pc' = "save"
    /\ dem_stdout' = dem_stdout \cup {Line("main", "Finalizing...", 0)}
    /\ UNCHANGED <<not_dem_vars, dem_error, dem_inputs, submitted, tile_data,
                   tile_status, worker_vars, stats_lock, accumulators,
                   merged_into, dem_written>>

\* the rows put in the order of the reference grid, the file written and
\* verified (verify_output only prints, and names no tile)
DemMain_Save ==
    /\ dem_pc = "save"
    /\ dem_written' = TRUE
    /\ dem_pc' = "done"
    /\ dem_stdout' = dem_stdout \cup
                     {Line("main", "Successfully saved full-state DEM", 0),
                      Line("main", "Verifying output...", 0)}
    /\ UNCHANGED <<not_dem_vars, dem_error, dem_inputs, submitted, tile_data,
                   tile_status, worker_vars, stats_lock, accumulators,
                   merged_into, fin, divided>>

NextDem ==
    \/ DemMain_Grid
    \/ DemMain_Shape
    \/ DemMain_Glob
    \/ DemMain_Submit
    \/ DemMain_Drain
    \/ DemMain_Finalize
    \/ DemMain_Save
    \/ \E w \in Workers : W_Start(w)
    \/ \E w \in Workers : W_Acquire(w)
    \/ \E w \in Workers : W_Read(w)
    \/ \E w \in Workers : W_Write(w)
    \/ \E w \in Workers : W_Release(w)

SpecDem == InitDem /\ [][NextDem]_vars

\* The threads of the pool and the main thread are scheduled: a run does
\* not stop while one of them can take a step.
SpecDemLive == InitDem /\ [][NextDem]_vars /\ WF_vars(NextDem)

\* =========================================================================
\* sd_data_processing/process_dem_data.py
\* =========================================================================
\* The merged raster of all tiles is kept as tile 1.
InitDemSD ==
    /\ CombineIdle
    /\ NlcdIdle
    /\ QuantIdle
    /\ OtherIdle
    /\ dem_pc = "sdd_load"
    /\ dem_error = "none"
    /\ prism_ref_exists \in BOOLEAN
    /\ ca_state_exists = FALSE
    /\ dem_files \in {{}, Tiles}
    /\ submitted = 0
    /\ tile_data = [t \in Tiles |-> "unopened"]
    /\ tile_status = [t \in Tiles |-> "new"]
    /\ w_pc = [w \in Workers |-> "idle"]
    /\ w_tile = [w \in Workers |-> 0]
    /\ w_local = [w \in Workers |-> ZeroAccumulators]
    /\ w_reg = [w \in Workers |-> ZeroGrid]
    /\ w_k = [w \in Workers |-> 0]
    /\ stats_lock = 0
    /\ accumulators = ZeroAccumulators
    /\ merged_into = [n \in SeqToSet(AccNames) |-> {}]
    /\ fin = NoFin
    /\ divided = {}
    /\ dem_written = FALSE
    /\ dem_stdout = {}

\* binned_statistic_2d(lonf[mask], latf[mask], data[mask], statistic='mean')
\* with mask = ~np.isnan(data); the mean of an empty bin is nan
upscale_variable(data, raster) ==
    [c \in Cells |->
        LET S == {p \in Pixels : ~IsNan(data[p]) /\ raster.cell[p] = c}
        IN  IF S = {} THEN NanQ ELSE Quot(SumOver(data, S), Cardinality(S))]

process_upscaling(k) ==
    LET raster == TileRaster(k)
        fine == calculate_slope_aspect_tile(raster.elev)
        slopec_x == upscale_variable(fine.sx, raster)
        slopec_y == upscale_variable(fine.sy, raster)
    IN  [elev    |-> upscale_variable(fine.elev, raster),
         slope   |-> upscale_variable(fine.slope, raster),
         sx      |-> slopec_x,
         sy      |-> slopec_y,
         sx_atan |-> [c \in Cells |-> clamp(slopec_x[c])],
         aspect  |-> [c \in Cells |-> arctan2(slopec_y[c], clamp(slopec_x[c]))]]

\* load_and_merge_dems
SDD_Load ==
    /\ dem_pc = "sdd_load"
    /\ IF dem_files = {}
       THEN /\ dem_error' = "FileNotFoundError"
            /\ dem_pc' = "sdd_done"
            /\ UNCHANGED tile_data
       ELSE /\ \E k \in ReadableTiles : tile_data' = [tile_data EXCEPT ![1] = k]
            /\ dem_pc' = "sdd_prism"
            /\ UNCHANGED dem_error
    /\ UNCHANGED <<not_dem_vars, dem_stdout, dem_inputs, submitted, tile_status, worker_vars,
                   stats_lock, accumulators, merged_into, final_vars>>

\* the reference grid, or return
SDD_Prism ==
    /\ dem_pc = "sdd_prism"
    /\ dem_pc' = IF prism_ref_exists THEN "sdd_upscale" ELSE "sdd_done"
    /\ UNCHANGED <<not_dem_vars, dem_stdout, dem_error, dem_inputs, submitted, tile_data,
                   tile_status, worker_vars, stats_lock, accumulators,
                   merged_into, final_vars>>

\* get_fine_grid_coords, calculate_fine_slope_aspect, process_upscaling
SDD_Upscale ==
    /\ dem_pc = "sdd_upscale"
    /\ fin' = process_upscaling(tile_data[1])
    /\ dem_pc' = "sdd_save"
    /\ UNCHANGED <<not_dem_vars, dem_stdout, dem_error, dem_inputs, submitted, tile_data,
                   tile_status, worker_vars, stats_lock, accumulators,
                   merged_into, divided, dem_written>>

\* save_output, verify_output (which only prints)
SDD_Save ==
    /\ dem_pc = "sdd_save"
    /\ dem_written' = TRUE
    /\ dem_pc' = "sdd_done"
    /\ UNCHANGED <<not_dem_vars, dem_stdout, dem_error, dem_inputs, submitted, tile_data,
                   tile_status, worker_vars, stats_lock, accumulators,
                   merged_into, fin, divided>>

NextDemSD ==
    \/ SDD_Load
    \/ SDD_Prism
    \/ SDD_Upscale
    \/ SDD_Save

SpecDemSD == InitDemSD /\ [][NextDemSD]_vars

\* Both elevation scripts: a run of either.
InitDemBoth == InitDem \/ InitDemSD
NextDemBoth == NextDem \/ NextDemSD
SpecDemBoth == InitDemBoth /\ [][NextDemBoth]_vars

\* =========================================================================
\* download_nlcd_annual.py, ca_data_processing/download_nlcd_annual.py
\* =========================================================================
EXCLUDED_CLASSES == {11, 12, 250}

\* the values a fine land cover pixel can hold; nan is a masked pixel
NlcdClasses == {11, 21, 22, 250, nan}

NlcdSamples == UNION {[1..k -> NlcdClasses] : k \in 0..MaxSamples}

Count(v, values) == Cardinality({i \in DOMAIN values : values[i] = v})

\* scipy.stats.mode: the most frequent value, the smallest of them when
\* several are equally frequent
stats_mode(values) ==
    CHOOSE v \in SeqToSet(values) :
        \A u \in SeqToSet(values) :
            \/ Count(v, values) > Count(u, values)
            \/ Count(v, values) = Count(u, values) /\ v <= u

mode_statistic_unfiltered(values) ==
    IF Len(values) = 0 THEN nan ELSE stats_mode(values)
mode_statistic(values) ==
    IF Len(values) = 0 THEN nan
    ELSE LET filtered == SelectSeq(values, LAMBDA v : v \notin EXCLUDED_CLASSES)
         IN  IF Len(filtered) = 0 THEN nan ELSE stats_mode(filtered)

\* download_nlcd_annual.py: nan samples are dropped, the bin of the cell is
\* given to mode_statistic
upscale_to_prism_sd(flat) ==
    mode_statistic(SelectSeq(flat, LAMBDA v : ~IsNan(v)))

\* nlcd_geo.where(~nlcd_geo.isin(EXCLUDED_CLASSES))
nlcd_masked(flat) ==
    [i \in DOMAIN flat |-> IF flat[i] \in EXCLUDED_CLASSES THEN nan ELSE flat[i]]

\* rio.reproject_match(prism, resampling=Resampling.mode): a most frequent
\* value of the unmasked source pixels of the cell; which one, when several
\* are equally frequent, is left to the warper
resampling_mode(values) ==
    LET seen == SelectSeq(values, LAMBDA v : ~IsNan(v))
    IN  IF seen = <<>> THEN {nan}
        ELSE {v \in SeqToSet(seen) :
                \A u \in SeqToSet(seen) : Count(v, seen) >= Count(u, seen)}

upscale_to_prism_ca(flat) == resampling_mode(nlcd_masked(flat))

InitNlcd ==
    /\ CombineIdle
    /\ DemIdle
    /\ QuantIdle
    /\ OtherIdle
    /\ nlcd_pc \in {"sd_upscale", "ca_upscale"}
    /\ nlcd_flat \in NlcdSamples
    /\ nlcd_coarse = 0

\* download_nlcd_annual.py: upscale_to_prism
NlcdSD_Upscale ==
    /\ nlcd_pc = "sd_upscale"
    /\ nlcd_coarse' = upscale_to_prism_sd(nlcd_flat)
    /\ nlcd_pc' = "sd_done"
    /\ UNCHANGED <<combine_vars, dem_vars, quant_vars, other_vars, nlcd_flat>>

\* ca_data_processing/download_nlcd_annual.py: upscale_to_prism
NlcdCA_Upscale ==
    /\ nlcd_pc = "ca_upscale"
    /\ nlcd_coarse' \in upscale_to_prism_ca(nlcd_flat)
    /\ nlcd_pc' = "ca_done"
    /\ UNCHANGED <<combine_vars, dem_vars, quant_vars, other_vars, nlcd_flat>>

NextNlcd ==
    \/ NlcdSD_Upscale
    \/ NlcdCA_Upscale

SpecNlcd == InitNlcd /\ [][NextNlcd]_vars

\* =========================================================================
\* coordinate quantization of the combine scripts
\* =========================================================================
\* raw coordinates around a latitude and a longitude of the grid
RawCoordinates ==
    {RawLat("prism", 1) + k : k \in (-MaxDrift)..MaxDrift}
        \cup {RawLon("prism", 1) + k : k \in (-MaxDrift)..MaxDrift}

round5(lib, x) == IF lib = "polars" THEN pl_round5(x) ELSE pd_round5(x)

InitQuant ==
    /\ CombineIdle
    /\ DemIdle
    /\ NlcdIdle
    /\ OtherIdle
    /\ q_pc = "raw"
    /\ q_lib \in {"polars", "pandas"}
    /\ q_x \in RawCoordinates
    /\ q_once = 0
    /\ q_twice = 0

\* the rounding of a source table's coordinate
Quant_Round ==
    /\ q_pc = "raw"
    /\ q_once' = round5(q_lib, q_x)
    /\ q_pc' = "once"
    /\ UNCHANGED <<combine_vars, dem_vars, nlcd_vars, other_vars, q_lib, q_x, q_twice>>

\* the rounding of a coordinate that is already a join key
Quant_Reround ==
    /\ q_pc = "once"
    /\ q_twice' = round5(q_lib, q_once)
    /\ q_pc' = "twice"
    /\ UNCHANGED <<combine_vars, dem_vars, nlcd_vars, other_vars, q_lib, q_x, q_once>>

NextQuant ==
    \/ Quant_Round
    \/ Quant_Reround

SpecQuant == InitQuant /\ [][NextQuant]_vars

\* =========================================================================
\* bin edges and orientation of the aggregation stages
\* =========================================================================
\* Coordinates are integers; a cell is 4 or 8 units wide.
AxisLens == 2..MaxAxis
GridSteps == {4, 8}
AxisStarts == {-40, 20}

UniformAxis(n, first, step) == [i \in 1..n |-> first + (i - 1) * step]

\* prism.coords['x'].values, prism.coords['y'].values: ascending or descending
Axes ==
    {UniformAxis(n, f, d * st) :
        n \in AxisLens, f \in AxisStarts, st \in GridSteps, d \in {1, -1}}

\* the x axis of a north-up raster runs west to east
AscendingAxes == {c \in Axes : c[2] > c[1]}

MinOf(c) == CHOOSE v \in SeqToSet(c) : \A u \in SeqToSet(c) : v <= u
MaxOf(c) == CHOOSE v \in SeqToSet(c) : \A u \in SeqToSet(c) : v >= u
Spacing(c) == Abs(c[2] - c[1])
Reverse(e) == [i \in 1..Len(e) |-> e[Len(e) + 1 - i]]

\* the fine samples along an axis: two inside every reference cell, and one
\* a cell beyond each end of the grid
FineCoords(c) ==
    {c[i] + o : i \in 1..Len(c), o \in {-1, 1}}
        \cup {MinOf(c) - Spacing(c), MaxOf(c) + Spacing(c)}

\* np.meshgrid(...).flatten(): a sample is <<y, x>>
FineSamples(latc, lonc) == FineCoords(latc) \X FineCoords(lonc)

\* np.linspace(start, stop, num)
linspace(start, stop, num) ==
    [i \in 1..num |-> start + ((i - 1) * (stop - start)) \div (num - 1)]

\* ca_data_processing/process_dem_data.py: lon_edges, lat_edges
ca_dem_edges(c) ==
    linspace(MinOf(c) - Spacing(c) \div 2, MaxOf(c) + Spacing(c) \div 2, Len(c) + 1)

\* sd_data_processing/process_dem_data.py: lon_edges, lat_edges
sd_dem_edges(c) ==
    LET n == Len(c)
        half == Spacing(c) \div 2
        e == IF c[2] > c[1]
             THEN Append([i \in 1..n |-> c[i] - half], c[n] + half)
             ELSE Append([i \in 1..n |-> c[i] + half], c[n] - half)
    IN  IF e[1] > e[Len(e)] THEN Reverse(e) ELSE e

\* np.arange(start, stop, step) has ceil((stop - start) / step) elements; the
\* quotient is computed in floating point, and for a stop that is a whole
\* number of steps from start it comes out as that number or just above it
arange_lens(start, stop, step) ==
    LET q == (stop - start) \div step
    IN  IF q * step = stop - start THEN {q, q + 1} ELSE {q + 1}

arange(start, step, len) == [i \in 1..len |-> start + (i - 1) * step]

\* download_nlcd_annual.py: lon_bins, lat_bins (the possible results)
nlcd_bins(c) ==
    {arange(MinOf(c), Spacing(c), len) :
        len \in arange_lens(MinOf(c), MaxOf(c) + Spacing(c), Spacing(c))}

\* the bin of a value: bins are closed on the left and open on the right,
\* the last one closed on both sides; 0 for a value outside the edges
bin_of(edges, v) ==
    LET last == Len(edges)
    IN  IF v < edges[1] \/ v > edges[last] THEN 0
        ELSE IF v = edges[last] THEN last - 1
        ELSE CHOOSE i \in 1..(last - 1) : edges[i] <= v /\ v < edges[i + 1]

\* stats.binned_statistic_2d(lons, lats, values, bins=[lon_edges, lat_edges])
\* .statistic.T: rows are the y bins, columns the x bins; a cell is
\* identified here with the set of samples its statistic is computed from
binned_statistic_2d_T(samples, lat_edges, lon_edges) ==
    [i \in 1..(Len(lat_edges) - 1) |->
        [j \in 1..(Len(lon_edges) - 1) |->
            {sm \in samples : /\ bin_of(lat_edges, sm[1]) = i
                              /\ bin_of(lon_edges, sm[2]) = j}]]

InitGrid ==
    /\ CombineIdle
    /\ DemIdle
    /\ NlcdIdle
    /\ QuantIdle
    /\ HandoverIdle
    /\ BsIdle
    /\ SplitIdle
    /\ g_pc = "edges"
    /\ g_stage \in {"ca_dem", "sd_dem", "sd_nlcd"}
    /\ g_latc \in Axes
    /\ g_lonc \in AscendingAxes
    /\ g_lat_edges = <<>>
    /\ g_lon_edges = <<>>
    /\ g_coarse = NoGrid
    /\ g_saved = NoGrid
    /\ g_error = "none"

not_grid_vars == <<combine_vars, dem_vars, nlcd_vars, quant_vars, ho_vars, bs_vars,
                   split_vars>>

\* the bin edges of the stage
Grid_Edges ==
    /\ g_pc = "edges"
    /\ CASE g_stage = "ca_dem" ->
                /\ g_lat_edges' = ca_dem_edges(g_latc)
                /\ g_lon_edges' = ca_dem_edges(g_lonc)
         [] g_stage = "sd_dem" ->
                /\ g_lat_edges' = sd_dem_edges(g_latc)
                /\ g_lon_edges' = sd_dem_edges(g_lonc)
         [] g_stage = "sd_nlcd" ->
                /\ g_lat_edges' \in nlcd_bins(g_latc)
                /\ g_lon_edges' \in nlcd_bins(g_lonc)
    /\ g_pc' = "bin"
    /\ UNCHANGED <<not_grid_vars, g_stage, g_latc, g_lonc, g_coarse, g_saved, g_error>>

\* the aggregation of the fine samples
Grid_Bin ==
    /\ g_pc = "bin"
    /\ g_coarse' = binned_statistic_2d_T(FineSamples(g_latc, g_lonc),
                                         g_lat_edges, g_lon_edges)
    /\ g_pc' = "save"
    /\ UNCHANGED <<not_grid_vars, g_stage, g_latc, g_lonc, g_lat_edges,
                   g_lon_edges, g_saved, g_error>>

\* ca_data_processing/process_dem_data.py: Handle Orientation Flip
orient(stage, latc, data) ==
    IF stage = "ca_dem" /\ latc[2] < latc[1] THEN Reverse(data) ELSE data

\* xr.Dataset / xr.DataArray with the reference axes as coordinates: the
\* array has to have their lengths
Grid_Save ==
    /\ g_pc = "save"
    /\ LET data == orient(g_stage, g_latc, g_coarse)
       IN  IF Len(data) = Len(g_latc) /\ Len(data[1]) = Len(g_lonc)
           THEN /\ g_saved' = [data |-> data, y |-> g_latc, x |-> g_lonc]
                /\ UNCHANGED g_error
           ELSE /\ g_error' = "ValueError"
                /\ UNCHANGED g_saved
    /\ g_pc' = "done"
    /\ UNCHANGED <<not_grid_vars, g_stage, g_latc, g_lonc, g_lat_edges,
                   g_lon_edges, g_coarse>>

NextGrid ==
    \/ Grid_Edges
    \/ Grid_Bin
    \/ Grid_Save

SpecGrid == InitGrid /\ [][NextGrid]_vars

\* =========================================================================
\* vegetation index: the file names handed from the processing stage to
\* the combine stage
\* =========================================================================
END_YEAR_SD == 2002
END_YEAR_CA == 2024
MODIS_FIRST_YEAR == 2000
MODIS_LAST_YEAR == 2024

\* a name is a sequence of characters; the decimal digits:
DigitChars == <<"0", "1", "2", "3", "4", "5", "6", "7", "8", "9">>
IsDigit(ch) == \E i \in 1..10 : DigitChars[i] = ch
DigitValue(ch) == (CHOOSE i \in 1..10 : DigitChars[i] = ch) - 1

Pow10(k) == CASE k = 0 -> 1 [] k = 1 -> 10 [] k = 2 -> 100 [] k = 3 -> 1000
              [] k = 4 -> 10000 [] OTHER -> 100000

\* f"{n:0{width}d}"
Pad(n, width) ==
    [i \in 1..width |-> DigitChars[((n \div Pow10(width - i)) % 10) + 1]]

\* int(chars) of a string of digits
RECURSIVE ToInt(_)
ToInt(chars) ==
    IF chars = <<>> THEN 0
    ELSE 10 * ToInt(SubSeq(chars, 1, Len(chars) - 1)) + DigitValue(chars[Len(chars)])

IsLeap(y) == (y % 4 = 0 /\ y % 100 # 0) \/ y % 400 = 0
MonthLen(y, m) ==
    CASE m = 2 -> IF IsLeap(y) THEN 29 ELSE 28
      [] m \in {4, 6, 9, 11} -> 30
      [] OTHER -> 31
DaysIn(y) == IF IsLeap(y) THEN 366 ELSE 365

\* the date n days after the first of month m of year y
RECURSIVE DateFrom(_, _, _)
DateFrom(y, m, n) ==
    IF n < MonthLen(y, m) THEN [year |-> y, month |-> m, day |-> n + 1]
    ELSE IF m = 12 THEN DateFrom(y + 1, 1, n - MonthLen(y, m))
    ELSE DateFrom(y, m + 1, n - MonthLen(y, m))

\* datetime(year, 1, 1) + timedelta(days=doy - 1)
date_obj(y, doy) == DateFrom(y, 1, doy - 1)

\* date_obj.strftime("%Y-%m-%d")
strftime(d) == Pad(d.year, 4) \o <<"-">> \o Pad(d.month, 2) \o <<"-">> \o Pad(d.day, 2)

\* the part of the input name that starts with 'doy':
\* MOD13A3.061__1_km_monthly_NDVI_doy2000032000000_aid0001.tif
doy_part(input) ==
    <<"d", "o", "y">> \o Pad(input.year, 4) \o Pad(input.doy, 3) \o Pad(0, 6)

\* process_ndvi_data.py: process_file, Construct output filename
output_filename_sd(input) ==
    [prefix |-> "sd_ndvi_800m_", date |-> SubSeq(doy_part(input), 4, 10), ext |-> ".nc"]

\* ca_data_processing/process_ndvi_data.py: process_file, Construct output
\* filename; NoName when the ValueError is raised
output_filename_ca(input) ==
    LET date_part == SubSeq(doy_part(input), 4, 10)
        y == ToInt(SubSeq(date_part, 1, 4))
        doy == ToInt(SubSeq(date_part, 5, 7))
    IN  IF y < MODIS_FIRST_YEAR \/ y > MODIS_LAST_YEAR THEN NoName
        ELSE [prefix |-> "ca_ndvi_800m_", date |-> strftime(date_obj(y, doy)), ext |-> ".nc"]

\* re.compile(r"<region>_ndvi_800m_(\d{4})-(\d{2})-(\d{2})\.nc$").search(name)
pattern_search(region, name) ==
    /\ name.prefix = (IF region = "sd" THEN "sd_ndvi_800m_" ELSE "ca_ndvi_800m_")
    /\ name.ext = ".nc"
    /\ Len(name.date) = 10
    /\ \A i \in {1, 2, 3, 4, 6, 7, 9, 10} : IsDigit(name.date[i])
    /\ name.date[5] = "-"
    /\ name.date[8] = "-"

\* the years of the input names, and their days
ModisYears == {1999, 2000, 2001, 2002, 2023, 2024, 2025}
NdviInputs == {[year |-> y, doy |-> d] : y \in ModisYears, d \in 1..366} \ 
              {[year |-> y, doy |-> 366] : y \in {z \in ModisYears : ~IsLeap(z)}}

InitHandover ==
    /\ CombineIdle
    /\ DemIdle
    /\ NlcdIdle
    /\ QuantIdle
    /\ GridIdle
    /\ BsIdle
    /\ SplitIdle
    /\ h_pc = "input"
    /\ h_region \in {"sd", "ca"}
    /\ h_input \in NdviInputs
    /\ h_output = NoName
    /\ h_assigned = NoDate

not_ho_vars == <<combine_vars, dem_vars, nlcd_vars, quant_vars, grid_vars, bs_vars,
                 split_vars>>

\* process_file of the region's processing stage
Ndvi_ProcessFile ==
    /\ h_pc = "input"
    /\ LET name == IF h_region = "sd" THEN output_filename_sd(h_input)
                   ELSE output_filename_ca(h_input)
       IN  /\ h_output' = name
           /\ h_pc' = IF name = NoName THEN "failed" ELSE "written"
    /\ UNCHANGED <<not_ho_vars, h_region, h_input, h_assigned>>

\* the combine stage of the region globbing the file
Combine_MatchNdvi ==
    /\ h_pc = "written"
    /\ LET y == ToInt(SubSeq(h_output.date, 1, 4))
           m == ToInt(SubSeq(h_output.date, 6, 7))
           last == IF h_region = "sd" THEN END_YEAR_SD ELSE END_YEAR_CA
       IN  IF pattern_search(h_region, h_output) /\ START_YEAR <= y /\ y <= last
           THEN h_assigned' = [year |-> y, month |-> m] /\ h_pc' = "matched"
           ELSE h_assigned' = h_assigned /\ h_pc' = "unmatched"
    /\ UNCHANGED <<not_ho_vars, h_region, h_input, h_output>>

NextHandover ==
    \/ Ndvi_ProcessFile
    \/ Combine_MatchNdvi

SpecHandover == InitHandover /\ [][NextHandover]_vars

\* =========================================================================
\* extract_BSmosaics.py
\* =========================================================================
\* what a year directory can hold
DirKinds == {"no_file", "burned", "no_overlap", "no_valid", "zip_without_tif",
             "unreadable"}

\* process_dataset: the DataFrame, or None.  rasterio's mask raises a
\* ValueError for shapes that do not overlap the raster, which process_dataset
\* catches; a raster without a valid pixel after clipping gives no rows.
process_dataset(kind) ==
    CASE kind = "burned" -> "rows"
      [] kind = "no_overlap" -> "None"
      [] OTHER -> "None"

\* extract_sd_burn_severity: what it returns, or the message of the
\* exception it raises
extract_sd_burn_severity(kind) ==
    CASE kind = "zip_without_tif" -> [raises |-> "No .tif found in source_path", df |-> "None"]
      [] kind = "unreadable" -> [raises |-> "not recognized as a supported file format", df |-> "None"]
      [] OTHER -> [raises |-> "", df |-> process_dataset(kind)]

\* "do not overlap" in str(e)
says_do_not_overlap(msg) == msg \in {"Input shapes do not overlap raster."}

BsLists(nf, no, nd, oe, dfs, n) ==
    [skipped_no_file |-> nf, skipped_no_overlap |-> no, skipped_no_data |-> nd,
     skipped_other_error |-> oe, all_dfs |-> dfs, processed_count |-> n]

\* the except branch of the loop body
on_exception_overlap_only(l, name, msg) ==
    IF says_do_not_overlap(msg)
    THEN [l EXCEPT !.skipped_no_overlap = Append(@, name)]
    ELSE l
on_exception(l, name, msg) ==
    IF says_do_not_overlap(msg)
    THEN [l EXCEPT !.skipped_no_overlap = Append(@, name)]
    ELSE [l EXCEPT !.skipped_other_error = Append(@, name)]

\* one pass of the loop body for the directory name holding kind
loop_body(l, name, kind) ==
    IF kind = "no_file"
    THEN [l EXCEPT !.skipped_no_file = Append(@, name)]
    ELSE LET res == extract_sd_burn_severity(kind)
         IN  IF res.raises # "" THEN on_exception(l, name, res.raises)
             ELSE IF res.df = "rows"
             THEN [l EXCEPT !.all_dfs = Append(@, name),
                            !.processed_count = @ + 1]
             ELSE [l EXCEPT !.skipped_no_data = Append(@, name)]

InitBS ==
    /\ CombineIdle
    /\ DemIdle
    /\ NlcdIdle
    /\ QuantIdle
    /\ GridIdle
    /\ HandoverIdle
    /\ SplitIdle
    /\ bs_pc = "start"
    /\ bs_env \in [counties : BOOLEAN, sd_county : BOOLEAN, mos_path : BOOLEAN]
    /\ bs_arg_year \in {0} \cup Years \cup {START_YEAR + NumYears}
    /\ bs_years = <<>>
    /\ bs_i = 0
    /\ bs_found = <<>>
    /\ all_dfs = <<>>
    /\ processed_count = 0
    /\ skipped_no_file = <<>>
    /\ skipped_no_overlap = <<>>
    /\ skipped_no_data = <<>>
    /\ skipped_other_error = <<>>
    /\ bs_written = FALSE

not_bs_vars == <<combine_vars, dem_vars, nlcd_vars, quant_vars, grid_vars, ho_vars,
                 split_vars>>
bs_lists == <<all_dfs, processed_count, skipped_no_file, skipped_no_overlap,
              skipped_no_data, skipped_other_error>>

\* main up to the loop: the early returns, the sorted year directories and
\* the --year filter
BS_Setup ==
    /\ bs_pc = "start"
    /\ IF ~(bs_env.counties /\ bs_env.sd_county /\ bs_env.mos_path)
       THEN bs_pc' = "done" /\ UNCHANGED <<bs_years, bs_i>>
       ELSE \E dirs \in SUBSET Years :
              LET years == SortedSeq(IF bs_arg_year # 0
                                     THEN dirs \cap {bs_arg_year} ELSE dirs)
              IN  IF bs_arg_year # 0 /\ years = <<>>
                  THEN bs_pc' = "done" /\ UNCHANGED <<bs_years, bs_i>>
                  ELSE /\ bs_years' = years
                       /\ bs_i' = 1
                       /\ bs_pc' = IF years = <<>> THEN "report" ELSE "loop"
    /\ UNCHANGED <<not_bs_vars, bs_env, bs_arg_year, bs_found, bs_lists, bs_written>>

\* for year_dir in iterator: one pass
BS_Year ==
    /\ bs_pc = "loop"
    /\ \E kind \in DirKinds :
        LET name == bs_years[bs_i]
            l == loop_body(BsLists(skipped_no_file, skipped_no_overlap,
                                   skipped_no_data, skipped_other_error,
                                   all_dfs, processed_count), name, kind)
        IN  /\ bs_found' = DictPut(bs_found, name, kind)
            /\ skipped_no_file' = l.skipped_no_file
            /\ skipped_no_overlap' = l.skipped_no_overlap
            /\ skipped_no_data' = l.skipped_no_data
            /\ skipped_other_error' = l.skipped_other_error
            /\ all_dfs' = l.all_dfs
            /\ processed_count' = l.processed_count
    /\ bs_i' = bs_i + 1
    /\ bs_pc' = IF bs_i + 1 <= Len(bs_years) THEN "loop" ELSE "report"
    /\ UNCHANGED <<not_bs_vars, bs_env, bs_arg_year, bs_years, bs_written>>

\* Concatenate all DataFrames and save; the summary is printed either way
BS_Report ==
    /\ bs_pc = "report"
    /\ bs_written' = (all_dfs # <<>>)
    /\ bs_pc' = "done"
    /\ UNCHANGED <<not_bs_vars, bs_env, bs_arg_year, bs_years, bs_i, bs_found,
                   bs_lists>>

NextBS ==
    \/ BS_Setup
    \/ BS_Year
    \/ BS_Report

SpecBS == InitBS /\ [][NextBS]_vars

\* =========================================================================
\* download_prism_data.py, sd_data_processing/download_prism_data.py
\* =========================================================================
max_workers == 5

total_years == sp_end_year - START_YEAR + 1
num_workers == IF max_workers < total_years THEN max_workers ELSE total_years
years_per_worker == total_years \div num_workers
remainder == total_years % num_workers

\* count = years_per_worker + (1 if i < remainder else 0)
count_without_remainder(i) == years_per_worker
count(i) == years_per_worker + (IF i < remainder THEN 1 ELSE 0)

InitSplit ==
    /\ CombineIdle
    /\ DemIdle
    /\ NlcdIdle
    /\ QuantIdle
    /\ GridIdle
    /\ HandoverIdle
    /\ BsIdle
    /\ sp_pc = "start"
    /\ sp_script \in {"download_prism_data", "sd_data_processing/download_prism_data"}
    /\ sp_shapefile \in BOOLEAN
    /\ sp_end_year \in START_YEAR..(START_YEAR + MaxSpan - 1)
    /\ sp_i = 0
    /\ current_start_year = 0
    /\ futures = <<>>

not_split_vars == <<combine_vars, dem_vars, nlcd_vars, quant_vars, grid_vars, ho_vars,
                    bs_vars>>

\* main up to the executor block: the directories, the shapefile or return
Split_Setup ==
    /\ sp_pc = "start"
    /\ IF sp_shapefile
       THEN /\ current_start_year' = START_YEAR
            /\ sp_pc' = "submit"
       ELSE /\ sp_pc' = "done"
            /\ UNCHANGED current_start_year
    /\ UNCHANGED <<not_split_vars, sp_script, sp_shapefile, sp_end_year, sp_i, futures>>

\* one pass of for i in range(num_workers)
Split_Submit ==
    /\ sp_pc = "submit"
    /\ LET current_end_year == current_start_year + count(sp_i) - 1
       IN  /\ futures' = Append(futures, [start |-> current_start_year,
                                          end |-> current_end_year,
                                          worker |-> sp_i])
           /\ current_start_year' = current_end_year + 1
    /\ sp_i' = sp_i + 1
    /\ sp_pc' = IF sp_i + 1 < num_workers THEN "submit" ELSE "wait"
    /\ UNCHANGED <<not_split_vars, sp_script, sp_shapefile, sp_end_year>>

\* as_completed(futures), the exit of the executor block, verify_subset_output
Split_Wait ==
    /\ sp_pc = "wait"
    /\ sp_pc' = "done"
    /\ UNCHANGED <<not_split_vars, sp_script, sp_shapefile, sp_end_year, sp_i,
                   current_start_year, futures>>

NextSplit ==
    \/ Split_Setup
    \/ Split_Submit
    \/ Split_Wait

SpecSplit == InitSplit /\ [][NextSplit]_vars

\* =========================================================================
\* Properties
\* =========================================================================
RequiredSchema ==
    {"lat", "lon", "year", "month", "ppt", "tdmean", "tmax", "vpdmax",
     "burned_area", "ndvi", "landcover", "elevation", "slope", "aspect"}

MergedName(y) == <<"merged_year", y, 0>>
MergedYears == {merged_year_files[i][2] : i \in DOMAIN merged_year_files}

\* the cell whose quantized coordinates a row carries
CellOfRow(r) ==
    CHOOSE c \in Cells : /\ pl_round5(RawLat("prism", c)) = r["lat"]
                         /\ pl_round5(RawLon("prism", c)) = r["lon"]

KeyCols == {"lat", "lon", "year", "month"}

NoDupKeys(t) ==
    \A i, j \in DOMAIN t.rows :
        i # j => \E k \in KeyCols : t.rows[i][k] # t.rows[j][k]

SdPcsAfterMerge ==
    {"sd_ndvi", "sd_merge_ndvi", "sd_nlcd", "sd_merge_nlcd", "sd_dem",
     "sd_merge_dem", "sd_verify", "sd_save"}

\* the values of the records of a source table that have the key of row r
MtbsValues(r) ==
    {DataValue("burned_area", CellOfRow(r), r["year"], r["month"], 0) : x \in
        {y \in DOMAIN mtbs_by_year : y = r["year"] /\ r["month"] \in mtbs_by_year[y]}
        \cup {f \in sd_files.mtbs : f = <<r["year"], r["month"]>>}}

NdviValues(r) ==
    {DataValue("ndvi", CellOfRow(r), r["year"], r["month"], ndvi_by_year[y][r["month"]]) :
        y \in {z \in DOMAIN ndvi_by_year :
                 z = r["year"] /\ r["month"] \in DOMAIN ndvi_by_year[z]}}
    \cup {DataValue("ndvi", CellOfRow(r), r["year"], r["month"], f[3]) :
        f \in {g \in sd_files.ndvi : g[1] = r["year"] /\ g[2] = r["month"]}}

NlcdValues(r) ==
    {DataValue("landcover", CellOfRow(r), r["year"], 0, 0) :
        y \in {z \in nlcd_by_year \cup sd_files.nlcd : z = r["year"]}}

DemValues(r, field) ==
    {DataValue(field, c, START_YEAR, 0, 0) : c \in {d \in dem_cells : d = CellOfRow(r)}}

Carries(r, col, values) ==
    col \in DOMAIN r => IF values = {} THEN r[col] = Null ELSE r[col] \in values

RowCarriesItsRecords(r) ==
    /\ Carries(r, "burned_area", MtbsValues(r))
    /\ Carries(r, "ndvi", NdviValues(r))
    /\ Carries(r, "landcover", NlcdValues(r))
    /\ \A f \in {"elevation", "slope", "aspect"} : Carries(r, f, DemValues(r, f))

\* the joined table a step has just produced: the YearTable of the year
\* being processed, or the table main of combine_dataset.py has merged so far
JoinedTables ==
    (IF pc = "cleanup_year" THEN {temp[MergedName(year)]} ELSE {})
    \cup (IF pc \in SdPcsAfterMerge \cup {"sd_done"} THEN {combined} ELSE {})

\* C1: the left-join chain yields exactly one output row per base row, and
\* a base row without a match in an available secondary table carries null
\* in that table's columns.
C1_LeftJoinKeepsBaseRows ==
    /\ pc \in SdPcsAfterMerge => Len(combined.rows) = base_rows
    /\ pc = "cleanup_year" =>
        LET t == temp[MergedName(year)]
        IN  /\ Len(t.rows) = base_rows
            /\ \A i \in DOMAIN t.rows :
                 /\ (mtbs_file # NoFile /\ t.rows[i]["month"] \notin mtbs_by_year[year])
                        => t.rows[i]["burned_area"] = Null
                 /\ (ndvi_file # NoFile /\ t.rows[i]["month"] \notin DOMAIN ndvi_by_year[year])
                        => t.rows[i]["ndvi"] = Null
                 /\ CellOfRow(t.rows[i]) \notin dem_cells
                        => t.rows[i]["elevation"] = Null

\* C2: a non-base source without a table for a year that has base data is
\* skipped for that year only: the YearTable has the source's columns, null
\* on every row, and the run goes on to produce the FinalTable.
SourceColumn(file, col) ==
    (pc = "cleanup_year" /\ file = NoFile) =>
        LET t == temp[MergedName(year)]
        IN  col \in ColSet(t) /\ \A i \in DOMAIN t.rows : t.rows[i][col] = Null

SourceMissingSomeYear ==
    \E y \in MergedYears : \/ y \notin DOMAIN mtbs_by_year
                           \/ y \notin DOMAIN ndvi_by_year
                           \/ y \notin nlcd_by_year

C2_MissingSourceIsNullFilled ==
    /\ SourceColumn(mtbs_file, "burned_area")
    /\ SourceColumn(ndvi_file, "ndvi")
    /\ SourceColumn(nlcd_file, "landcover")
    /\ (pc = "done" /\ SourceMissingSomeYear /\ error # "ReadError") => output_written

\* C3: a FinalTable that lacks a required column makes the run fail with
\* the error of verify_final_output and the output file is never written;
\* the output file is written only after verification has passed.
C3_SchemaGate ==
    /\ \A c \in RequiredSchema :
        (concat_read # {} /\ pc \in {"save", "delete_merged", "finally", "done"}
            /\ c \notin ColSet(combined))
        => (error = "ValueError" /\ ~output_written)
    /\ pc = "save" => RequiredSchema \subseteq ColSet(combined)
    /\ output_written => (RequiredSchema \subseteq ColSet(output) /\ output = combined)
    /\ error # "none" => ~output_written

C3_Witness ==
    /\ pc = "done"
    /\ error = "ValueError"
    /\ "ndvi" \notin ColSet(combined)
    /\ combined.rows # <<>>
    /\ ~output_written

\* C4: a year whose base source yields no table (no files, or no month with
\* all climate variables) gets no merged YearTable, this raises no error,
\* the loop goes on with the next year, and the FinalTable holds no row of
\* that year.
NoBaseYears ==
    {y \in Years :
        \/ pc \notin {"start"} /\ y \notin SeqToSet(all_years)
        \/ y \in DOMAIN prism_by_year
            /\ \A m \in DOMAIN prism_by_year[y] : prism_by_year[y][m] # VarsSet}

NoRowOfYear(t, y) == \A i \in DOMAIN t.rows : t.rows[i]["year"] # y

C4_State ==
    \A y \in NoBaseYears :
        /\ MergedName(y) \notin DOMAIN temp
        /\ y \notin MergedYears
        /\ NoRowOfYear(combined, y)
        /\ NoRowOfYear(output, y)

C4_Step ==
    (pc = "prism_year" /\ year \in NoBaseYears')
        => /\ error' = "none"
           /\ yi' = yi + 1
           /\ pc' = IF yi' <= Len(all_years) THEN "prism_year" ELSE "delete_dem"
           /\ temp' = temp

C4_BaseYearSkipped == [](C4_State) /\ [][C4_Step]_vars

C4_Witness ==
    /\ pc = "done"
    /\ output_written
    /\ \E y \in DOMAIN prism_by_year :
        /\ \A m \in DOMAIN prism_by_year[y] : prism_by_year[y][m] # VarsSet
        /\ \E z \in MergedYears : z > y

\* C5: every joined row carries, per source, the value of a record of that
\* source with the same key (monthly sources: lat, lon, year, month; land
\* cover: lat, lon, year; elevation, slope, aspect: lat, lon), null when
\* the joined source table has none, and never a value of another key.
C5_ValuesFollowKeys ==
    \A t \in JoinedTables : \A i \in DOMAIN t.rows : RowCarriesItsRecords(t.rows[i])

C5_Witness ==
    /\ pc = "cleanup_year"
    /\ \E i \in DOMAIN temp[MergedName(year)].rows :
        LET r == temp[MergedName(year)].rows[i]
        IN  /\ RequiredSchema \subseteq DOMAIN r
            /\ r["month"] = 1
            /\ r["burned_area"] # Null
            /\ r["ndvi"] # Null
            /\ r["landcover"] # Null
            /\ r["aspect"] # Null
    /\ \E i \in DOMAIN temp[MergedName(year)].rows :
        LET r == temp[MergedName(year)].rows[i]
        IN  r["month"] = 2 /\ r["ndvi"] = Null /\ r["landcover"] # Null

\* C6: no two rows of the FinalTable share a (lat, lon, year, month), for
\* any discovered files that hold one record per grid cell.
C6_FinalTableKeyed == output_written => NoDupKeys(output)

\* C7: a failure while materializing a non-base source table of a year is
\* caught and does not abort the run; only a missing static input and a
\* failed schema check end the run with an error.
C7_SourceFailureDoesNotAbort == error # "ReadError"

\* C8: when the static elevation table is absent the run aborts before any
\* source is loaded or joined, and no FinalTable is written.
C8_MissingDemFailsFast ==
    error = "FileNotFoundError" =>
        /\ loaded = {}
        /\ combined = EmptyTable
        /\ ~output_written

\* C9: years are processed in ascending order and the FinalTable is the
\* concatenation of the YearTables in ascending year order, each exactly
\* once.
RowsOfYear(t, y) == Len(SelectSeq(t.rows, LAMBDA r : r["year"] = y))

C9_AscendingYears ==
    /\ \A i, j \in DOMAIN all_years : i < j => all_years[i] < all_years[j]
    /\ \A i, j \in DOMAIN merged_year_files :
            i < j => merged_year_files[i][2] < merged_year_files[j][2]
    /\ \A i \in DOMAIN merged_year_files :
            yi >= 1 /\ \E k \in 1..yi : k <= Len(all_years) /\ all_years[k] = merged_year_files[i][2]
    /\ \A t \in {combined, output} :
        \A i, j \in DOMAIN t.rows : i < j => t.rows[i]["year"] <= t.rows[j]["year"]
    /\ pc \in {"verify", "save", "delete_merged"} =>
        /\ combined.rows =
              Flatten([i \in DOMAIN merged_year_files |-> temp[merged_year_files[i]].rows])
        /\ \A y \in Years :
              RowsOfYear(combined, y) =
                  IF y \in MergedYears THEN Len(temp[MergedName(y)].rows) ELSE 0
    /\ output_written => output = combined

C9_Witness ==
    /\ pc = "delete_merged"
    /\ output_written
    /\ Len(merged_year_files) >= 2
    /\ \E i, j \in DOMAIN output.rows : output.rows[i]["year"] < output.rows[j]["year"]

\* C10: a spilled YearTable is deleted only after the final concatenation
\* has read it, and when the run has ended, by success or by an error, the
\* spill directory and every file in it are gone.
C10_Step ==
    \A f \in DOMAIN temp :
        (f[1] = "merged_year" /\ f \notin DOMAIN temp') => f \in concat_read

C10_SpillDeletedAfterConcat ==
    [](pc = "done" => (temp = <<>> /\ ~temp_exists)) /\ [][C10_Step]_vars

\* ------------------------------------------------- elevation: helpers
DemFinalized == dem_pc \in {"save", "done"} /\ fin # NoFin

MergedTiles == {t \in Tiles : tile_status[t] = "merged"}

MeanNames == {"elev", "slope", "sx", "sy"}

\* The fine samples of raster k with a defined value of field f in cell c.
DefinedSamples(k, f, c) ==
    LET raster == TileRaster(k)
        fine == calculate_slope_aspect_tile(raster.elev)
    IN  {p \in Pixels : raster.cell[p] = c /\ ~IsNan(fine[f][p])}

DefinedSum(k, f, c) ==
    SumOver(calculate_slope_aspect_tile(TileRaster(k).elev)[f], DefinedSamples(k, f, c))

\* The arithmetic mean of the defined values of field f over the samples
\* of all merged tiles in cell c; nan when there is none.
SampleMean(f, c) ==
    LET sums == [t \in MergedTiles |-> DefinedSum(tile_data[t], f, c)]
        nums == [t \in MergedTiles |-> Cardinality(DefinedSamples(tile_data[t], f, c))]
        n == SumOver(nums, MergedTiles)
    IN  IF n = 0 THEN NanQ ELSE Quot(SumOver(sums, MergedTiles), n)

\* C11: after all tiles are merged every count is >= 0; a cell with count > 0
\* has each final mean equal to its accumulated sum divided by its count, a
\* cell with count = 0 has nan for each of them, and no sum is ever divided
\* by a zero count.
C11_MeanIsSumOverCount ==
    /\ \A c \in Cells : accumulators["count"][c] >= 0
    /\ \A c \in divided : accumulators["count"][c] # 0
    /\ DemFinalized =>
        \A c \in Cells : \A f \in MeanNames :
            IF accumulators["count"][c] > 0
            THEN /\ fin[f][c].d > 0
                 /\ fin[f][c].n * accumulators["count"][c] = accumulators[f][c] * fin[f][c].d
            ELSE fin[f][c] = NanQ

C11_Witness ==
    /\ dem_pc = "done"
    /\ dem_written
    /\ \E c \in Cells : accumulators["count"][c] > 0 /\ accumulators["elev"][c] > 0
    /\ \E c \in Cells : accumulators["count"][c] = 0 /\ fin["elev"][c] = NanQ

\* C12: the final coarse slope and the final coarse elevation of every cell
\* are the arithmetic mean of the defined fine values of the samples in the
\* cell, over all merged tiles; an undefined value adds to neither the sum
\* nor the divisor.
C12_SlopeAndElevationAreSampleMeans ==
    DemFinalized =>
        \A c \in Cells :
            /\ fin["elev"][c] = SampleMean("elev", c)
            /\ fin["slope"][c] = SampleMean("slope", c)

\* C13: the x and y components of the samples of a cell are averaged
\* separately and the aspect is the angle of the averaged vector (its x
\* component clamped away from zero), computed once.
C13_AspectOfMeanVector ==
    DemFinalized =>
        \A c \in Cells :
            /\ fin["sx"][c] = SampleMean("sx", c)
            /\ fin["sy"][c] = SampleMean("sy", c)
            /\ fin["aspect"][c] = arctan2(fin["sy"][c], fin["sx_atan"][c])

\* C14: where both mean components of a cell are defined, a mean x within
\* 1e-12 of zero is replaced by the positive value 1e-3 and any other mean x
\* is kept; arctan2 is never given x = 0 and the aspect is a finite angle.
\* In the tiled run the means are defined exactly where count > 0.
C14_ClampBeforeArctan2 ==
    fin # NoFin =>
        \A c \in Cells :
            /\ (dem_pc \in {"save", "done"} /\ accumulators["count"][c] > 0) =>
                    (IsFiniteQ(fin["sx"][c]) /\ IsFiniteQ(fin["sy"][c]))
            /\ (IsFiniteQ(fin["sx"][c]) /\ IsFiniteQ(fin["sy"][c])) =>
                /\ IF Abs(fin["sx"][c].n) * 8 <= fin["sx"][c].d
                   THEN fin["sx_atan"][c] = [n |-> clamp_x, d |-> 1]
                   ELSE fin["sx_atan"][c] = fin["sx"][c]
                /\ fin["sx_atan"][c].n # 0
                /\ fin["aspect"][c] = arctan2(fin["sy"][c], fin["sx_atan"][c])
                /\ fin["aspect"][c] # NanAngle

C14_Witness ==
    /\ fin # NoFin
    /\ \E c \in Cells :
        /\ IsFiniteQ(fin["sx"][c]) /\ IsFiniteQ(fin["sy"][c])
        /\ fin["sx"][c].n # 0
        /\ Abs(fin["sx"][c].n) * 8 <= fin["sx"][c].d
        /\ fin["aspect"][c] = [dy |-> 0, dx |-> 1]

\* The sum over the tiles of S of the local value of accumulator n at cell c.
LocalTotal(n, c, S) ==
    SumOver([t \in S |-> LocalTable[tile_data[t]][n][c]], S)

InMerge(w) == w_pc[w] \in {"read", "write", "release"}

\* C18: the accumulators change only in the region guarded by stats_lock,
\* which holds one worker at a time; once the pool has drained every
\* accumulator cell is the sum of the local values of the merged tiles.
C18_State ==
    /\ Cardinality({w \in Workers : InMerge(w)}) <= 1
    /\ \A w \in Workers : InMerge(w) => stats_lock = w
    /\ dem_pc \in {"finalize", "save", "done"} =>
        \A n \in SeqToSet(AccNames) : \A c \in Cells :
            accumulators[n][c] = LocalTotal(n, c, MergedTiles)

C18_Step ==
    accumulators' # accumulators =>
        \E w \in Workers : stats_lock = w /\ w_pc[w] = "write" /\ stats_lock' = w

C18_LockedMergeLosesNothing == [](C18_State) /\ [][C18_Step]_vars

C18_Witness ==
    /\ dem_pc = "finalize"
    /\ MergedTiles = Tiles
    /\ accumulators["count"][1] > 8
    /\ \E t, u \in Tiles : tile_data[t] # tile_data[u]

\* C19: a tile that is skipped or fails never touches an accumulator, a
\* merging tile is added to all five, and whenever the lock is free the
\* five accumulators hold exactly the same tiles.
C19_State ==
    /\ \A t \in Tiles :
        tile_status[t] \in {"new", "queued", "skipped", "failed"} =>
            \A n \in SeqToSet(AccNames) : t \notin merged_into[n]
    /\ \A n \in SeqToSet(AccNames) : \A c \in Cells :
            accumulators[n][c] = LocalTotal(n, c, merged_into[n])
    /\ stats_lock = 0 =>
        \A n \in SeqToSet(AccNames) : merged_into[n] = merged_into["count"]
    /\ stats_lock # 0 =>
        \A n \in SeqToSet(AccNames) :
            merged_into[n] \ {w_tile[stats_lock]} = merged_into["count"] \ {w_tile[stats_lock]}

C19_Step ==
    (\E t \in Tiles : /\ tile_status[t] = "queued"
                      /\ tile_status'[t] \in {"skipped", "failed"})
        => accumulators' = accumulators

C19_TilesMergeWholeOrNotAtAll == [](C19_State) /\ [][C19_Step]_vars

C19_Witness ==
    /\ stats_lock = 0
    /\ \E t \in Tiles : tile_status[t] = "skipped"
    /\ \E t \in Tiles : tile_status[t] = "failed"
    /\ \E t \in Tiles : tile_status[t] = "merged" /\ accumulators["sx"][1] # 0
    /\ \A n \in SeqToSet(AccNames) : Cardinality(merged_into[n]) = 1

\* C20: every tile handed to the pool eventually finishes, whatever happens
\* to the other tiles; a failing tile ends no run and stops no other tile;
\* the division of the sums starts only when every tile has finished.
C20_State ==
    /\ dem_pc \in {"submit", "drain", "finalize", "save"} => dem_error = "none"
    /\ \A t \in Tiles : tile_status[t] # "new" => t <= submitted
    /\ (dem_pc \in {"finalize", "save"} \/ fin # NoFin) =>
            \A t \in dem_files : tile_status[t] \in {"skipped", "failed", "merged"}
    /\ (dem_pc = "done" /\ submitted > 0) =>
            /\ dem_written
            /\ \A t \in dem_files : tile_status[t] \in {"skipped", "failed", "merged"}

C20_Step ==
    \A t \in Tiles :
        /\ tile_status[t] \in {"skipped", "failed", "merged"} => tile_status'[t] = tile_status[t]
        /\ tile_status[t] = "queued" => tile_status'[t] \in {"queued", "running", "skipped", "failed"}

C20_PoolDrains == [](C20_State) /\ [][C20_Step]_vars /\ <>(dem_pc = "done")

C20_Witness ==
    /\ dem_pc = "finalize"
    /\ tile_status[1] = "failed"
    /\ \E t \in Tiles : tile_status[t] = "merged"
    /\ \E t \in Tiles : tile_status[t] = "skipped"

\* ---------------------------------------------------- land cover: helpers
NlcdDone == nlcd_pc \in {"sd_done", "ca_done"}

\* the samples of the cell that count: not masked, not excluded
Kept == SelectSeq(nlcd_flat, LAMBDA v : v # nan /\ v \notin {11, 12, 250})

MostFrequent ==
    {v \in SeqToSet(Kept) : \A u \in SeqToSet(Kept) : Count(v, Kept) >= Count(u, Kept)}

\* C15: the land cover of a coarse cell is a most frequent value among its
\* samples outside the exclusion set {11, 12, 250}, and no-data when the
\* cell has no sample or only excluded ones; an excluded class is never
\* returned.
C15_ModeWithExclusions ==
    NlcdDone =>
        /\ nlcd_coarse \notin {11, 12, 250}
        /\ IF Kept = <<>> THEN nlcd_coarse = nan ELSE nlcd_coarse \in MostFrequent

C15_Witness ==
    /\ nlcd_pc = "sd_done"
    /\ nlcd_flat = <<11, 11, 21, 22, 22>>
    /\ nlcd_coarse = 22

\* C16: when several categories outside the exclusion set share the highest
\* count, the land cover of the cell is the one with the lowest id, whatever
\* the order of the samples.
C16_TiesToLowestId ==
    (NlcdDone /\ Kept # <<>>) =>
        /\ nlcd_coarse \in MostFrequent
        /\ \A u \in MostFrequent : nlcd_coarse <= u

ReportedAtEnd(t) ==
    \E l \in dem_stdout : l.by = "main" /\ l.tile = t

\* C21: once the pool has drained and the run has ended, every tile that
\* failed or was skipped is named by a line that main printed after the
\* drain (the skipped-file list).
C21_SkippedTilesReported ==
    (dem_pc = "done" /\ dem_written) =>
        \A t \in dem_files :
            tile_status[t] \in {"skipped", "failed"} => ReportedAtEnd(t)
\* -------------------------------------------------------------------- C22
StrictlyIncreasing(e) == \A i \in 1..(Len(e) - 1) : e[i] < e[i + 1]

\* the bins that hold the center strictly inside, half a cell from both edges
BinsAround(e, c, v) ==
    {k \in 1..(Len(e) - 1) : /\ e[k] < v /\ v < e[k + 1]
                             /\ 2 * (v - e[k]) = Spacing(c)
                             /\ 2 * (e[k + 1] - v) = Spacing(c)}

EdgesBracket(e, c) ==
    /\ StrictlyIncreasing(e)
    /\ Len(e) = Len(c) + 1
    /\ \A i \in 1..Len(c) : Cardinality(BinsAround(e, c, c[i])) = 1

\* C22: the bin edges of every stage are strictly increasing, one more than
\* the centers, every center is strictly inside exactly one bin, half a cell
\* from its two edges, and the binned result has one bin per reference cell.
C22_EdgesBracketCenters ==
    g_pc \in {"save", "done"} =>
        /\ EdgesBracket(g_lat_edges, g_latc)
        /\ EdgesBracket(g_lon_edges, g_lonc)
        /\ Len(g_coarse) = Len(g_latc)
        /\ \A i \in 1..Len(g_coarse) : Len(g_coarse[i]) = Len(g_lonc)

\* -------------------------------------------------------------------- C23
\* the fine samples whose coordinates fall in the cell centred at (y, x)
SamplesOfCell(y, x) ==
    {sm \in FineSamples(g_latc, g_lonc) :
        /\ 2 * Abs(sm[1] - y) < Spacing(g_latc)
        /\ 2 * Abs(sm[2] - x) < Spacing(g_lonc)}

\* C23: for an ascending as for a descending y-axis the saved grid has the
\* shape of the reference axes and its row i, column j holds the aggregate
\* of exactly the fine samples of the cell centred at (y[i], x[j]).
C23_RowsFollowReferenceAxis ==
    g_pc = "done" =>
        /\ g_error = "none"
        /\ Len(g_saved.data) = Len(g_saved.y)
        /\ \A i \in 1..Len(g_saved.y) :
              /\ Len(g_saved.data[i]) = Len(g_saved.x)
              /\ \A j \in 1..Len(g_saved.x) :
                    g_saved.data[i][j] = SamplesOfCell(g_saved.y[i], g_saved.x[j])
\* -------------------------------------------------------------------- C24
PerSourceKinds == {"prism_year", "mtbs_year", "ndvi_year", "nlcd_year"}
MonthlyKinds == {"prism", "mtbs", "ndvi"}

InYearLoop == pc \in {"prism_year", "mtbs_year", "ndvi_year", "nlcd_year",
                      "merge_year", "cleanup_year", "finally"}
                /\ yi \in 1..Len(all_years)

\* the spill store holds nothing but the static elevation table, merged
\* YearTables of the years reached so far and tables of the year in process
C24_State ==
    \A f \in DOMAIN temp :
        \/ f = FileName("dem", 0, 0)
        \/ /\ f[1] = "merged_year"
           /\ \E i \in 1..Len(all_years) : i <= yi /\ all_years[i] = f[2]
        \/ /\ f[1] \in PerSourceKinds \cup MonthlyKinds
           /\ InYearLoop
           /\ f[2] = year

\* a table of a year leaves the store only once the year's merged YearTable
\* is in the store
C24_Step ==
    \A f \in DOMAIN temp :
        (f[1] \in PerSourceKinds \cup MonthlyKinds /\ f \notin DOMAIN temp')
            => FileName("merged_year", f[2], 0) \in DOMAIN temp

AggregatedRasters ==
    IF dem_pc \in {"sdd_save", "sdd_done"}
    THEN {tile_data[1]}
    ELSE {tile_data[t] : t \in MergedTiles}

\* a fine sample of cell c with a defined x- and a defined y-gradient
HasGradientSample(c) ==
    \E k \in AggregatedRasters :
        DefinedSamples(k, "sx", c) \cap DefinedSamples(k, "sy", c) # {}

\* C25: a coarse cell has a non-missing aspect only if a fine sample with
\* defined x- and y-gradient components fell into it; a cell without such a
\* sample, in particular a cell without any sample, has a no-data aspect.
C25_NoAspectWithoutGradient ==
    fin # NoFin =>
        \A c \in Cells :
            fin["aspect"][c] # NanAngle => HasGradientSample(c)
\* -------------------------------------------------------------------- C26
\* a file of each of the four climate variables was found for the month
CompleteMonth(y, m) ==
    /\ y \in DOMAIN prism_by_year
    /\ m \in DOMAIN prism_by_year[y]
    /\ prism_by_year[y][m] = VarsSet

FromCompleteMonths(t) ==
    \A i \in DOMAIN t.rows : CompleteMonth(t.rows[i]["year"], t.rows[i]["month"])

\* C26: a month contributes rows to the base table of its year only if a
\* file of each of the four climate variables exists for it; every row of a
\* merged YearTable and of the FinalTable stems from such a month, and a
\* year without a complete month has no base table.
C26_OnlyCompleteMonths ==
    /\ \A f \in DOMAIN temp :
          f[1] \in {"prism_year", "merged_year"} => FromCompleteMonths(temp[f])
    /\ FromCompleteMonths(combined)
    /\ FromCompleteMonths(output)
    /\ \A y \in DOMAIN prism_by_year :
          (\A m \in DOMAIN prism_by_year[y] : ~CompleteMonth(y, m))
              => FileName("prism_year", y, 0) \notin DOMAIN temp

C26_Witness ==
    /\ output_written
    /\ \E y \in DOMAIN prism_by_year :
          /\ \E m \in DOMAIN prism_by_year[y] : ~CompleteMonth(y, m)
          /\ \E i \in DOMAIN output.rows : output.rows[i]["year"] = y
    /\ \E y \in DOMAIN prism_by_year :
          \A m \in DOMAIN prism_by_year[y] : ~CompleteMonth(y, m)
\* -------------------------------------------------------------------- C27
\* the calendar date of day doy of year y: the day d of the month m with
\* doy = d + the lengths of the months before m
IsAcquisitionMonth(y, doy, m) ==
    LET before == [k \in 1..12 |-> IF k < m THEN MonthLen(y, k) ELSE 0]
        sum == SumOver(before, 1..12)
    IN  sum < doy /\ doy <= sum + MonthLen(y, m)

\* C27: every output file of the vegetation index stage of a region has a
\* name that the combine stage of the region matches, and the combine stage
\* assigns it the year and the month of the acquisition date (the day of
\* year of the input name as a calendar date).
C27_NdviHandover ==
    /\ h_pc # "unmatched"
    /\ h_pc = "matched" =>
          /\ h_assigned.year = h_input.year
          /\ IsAcquisitionMonth(h_input.year, h_input.doy, h_assigned.month)
\* -------------------------------------------------------------------- C28
AfterLoop == bs_pc = "report" \/ (bs_pc = "done" /\ bs_i > Len(bs_years))

Occurrences(seq, x) == Cardinality({i \in DOMAIN seq : seq[i] = x})

\* in how many of the five records the directory appears, and how often
TimesAccounted(x) ==
    Occurrences(all_dfs, x) + Occurrences(skipped_no_file, x)
        + Occurrences(skipped_no_overlap, x) + Occurrences(skipped_no_data, x)
        + Occurrences(skipped_other_error, x)

\* C28: after the loop every year directory is either processed or in
\* exactly one of the four skip lists, once; processed_count plus the
\* lengths of the skip lists is the number of year directories; the output
\* file is written if and only if at least one year was processed.
C28_EveryYearAccountedOnce ==
    /\ AfterLoop =>
          /\ \A i \in DOMAIN bs_years : TimesAccounted(bs_years[i]) = 1
          /\ processed_count = Len(all_dfs)
          /\ processed_count + Len(skipped_no_file) + Len(skipped_no_overlap)
                + Len(skipped_no_data) + Len(skipped_other_error) = Len(bs_years)
    /\ bs_pc = "done" => (bs_written <=> processed_count >= 1)
    /\ bs_written => bs_pc = "done"

C28_Witness ==
    /\ bs_pc = "done"
    /\ bs_written
    /\ processed_count >= 1
    /\ Len(bs_years) >= 2
    /\ skipped_other_error # <<>>

\* -------------------------------------------------------------------- C29
\* C29: a year whose mosaic does not overlap the county is recorded in the
\* no-overlap list, a year that overlaps but has no valid pixel after
\* clipping in the no-data list, and neither list holds a year of the
\* other reason.
C29_OverlapAndNoDataKeptApart ==
    AfterLoop =>
        \A i \in DOMAIN bs_years :
            LET name == bs_years[i] IN
            /\ bs_found[name] = "no_overlap" <=> Occurrences(skipped_no_overlap, name) = 1
            /\ bs_found[name] = "no_valid" <=> Occurrences(skipped_no_data, name) = 1
\* -------------------------------------------------------------------- C30
RangeYears(f) == f.start..f.end

\* C30: the year range is split over min(5, number of years) workers; the
\* workers' ranges are non-empty, contiguous and pairwise disjoint, cover
\* every year of START_YEAR..END_YEAR exactly once, and their sizes differ
\* by at most one.
C30_YearsSplitEvenly ==
    sp_pc = "wait" =>
        /\ Len(futures) = (IF total_years < 5 THEN total_years ELSE 5)
        /\ \A i \in DOMAIN futures : futures[i].start <= futures[i].end
        /\ futures[1].start = START_YEAR
        /\ futures[Len(futures)].end = sp_end_year
        /\ \A i \in 1..(Len(futures) - 1) : futures[i + 1].start = futures[i].end + 1
        /\ \A i, j \in DOMAIN futures :
              i # j => RangeYears(futures[i]) \cap RangeYears(futures[j]) = {}
        /\ \A y \in START_YEAR..sp_end_year :
              Cardinality({i \in DOMAIN futures : y \in RangeYears(futures[i])}) = 1
        /\ \A i, j \in DOMAIN futures :
              Cardinality(RangeYears(futures[i])) - Cardinality(RangeYears(futures[j])) <= 1

C30_Witness ==
    /\ sp_pc = "wait"
    /\ Len(futures) = 5
    /\ Cardinality(RangeYears(futures[1])) = 3
    /\ Cardinality(RangeYears(futures[5])) = 2
====
